---- MODULE Spec2Model ----
(***************************************************************************)
(* A model of the casa "wemo" application: the away-mode scheduler         *)
(* (wemo/management/commands/run_away_mode.py), the device inventory and   *)
(* its reconciliation with discovered devices                              *)
(* (wemo/management/commands/discover_wemo.py, wemo/views.py) and the      *)
(* control endpoints (wemo/views.py, wemo/models.py).                      *)
(*                                                                         *)
(* Time is counted in minutes since midnight of day 0 in the scheduler's   *)
(* reference time zone.  A random draw random.random() is the fraction     *)
(* r / RandDen with r in 0 .. RandDen - 1.  None (a missing attribute, a   *)
(* NULL column, an empty string: every falsy value) is 0; identifiers,     *)
(* addresses and names are positive integers.                              *)
(***************************************************************************)
EXTENDS Integers, Sequences, FiniteSets, TLC

VARIABLES
    now,        \* the wall clock, minutes since midnight of day 0
    settings,   \* the AwayModeSettings singleton
    switches,   \* the WemoSwitch table, in Meta.ordering (newest first)
    inv,        \* what the last operation decided and answered (NoInv otherwise)
    calls,      \* the device requests the last step sent, in order
    fanouts     \* the fan-outs performed so far on the current date

vars == <<now, settings, switches, inv, calls, fanouts>>

----------------------------------------------------------------------------
(* Bounds of the model *)

NumSwitches == 2
RandDen == 6
TickMinutes == 5
StartHour == 17
HorizonHours == 8
SunsetHour == 18

(* Program constants *)

ForcedPercent == 80

None == 0
NoDate == -1
NoDraw == -1

DayMinutes == 24 * 60

Date(t) == t \div DayMinutes

Range(s) == {s[i] : i \in 1..Len(s)}

----------------------------------------------------------------------------
(* The sunset provider: astral's sun(observer, date)['sunset'], a function *)
(* of the date alone.                                                      *)

sunset_time(today) == today * DayMinutes + SunsetHour * 60

----------------------------------------------------------------------------
(* Command.check_sunset_on / check_night_off: the window decision.         *)
(*   "early"  now < window_start                                           *)
(*   "missed" now > window_end                                             *)
(*   "error"  the division elapsed / total raised ZeroDivisionError        *)
(*   "fire"   random() < probability or elapsed > total * 0.8              *)
(*   "wait"   otherwise                                                    *)

(* Mutant: the window opens a full width, not a half-width, before sunset. *)
sunset_window_start_full_width(s, t) ==
    sunset_time(Date(t)) - 2 * s.sunset_window_minutes

sunset_window_start(s, t) == sunset_time(Date(t)) - s.sunset_window_minutes

sunset_window_end(s, t) == sunset_time(Date(t)) + s.sunset_window_minutes

sunset_in_window(s, t) == sunset_window_start(s, t) <= t /\ t <= sunset_window_end(s, t)

(* Mutant: no forced fire past 80% of the window.                          *)
check_sunset_on_no_floor(s, t, r) ==
    LET window_start == sunset_window_start(s, t)
        window_end == sunset_window_end(s, t)
        total_window_seconds == (window_end - window_start) * 60
        elapsed_seconds == (t - window_start) * 60
    IN  IF window_start <= t /\ t <= window_end
        THEN IF total_window_seconds = 0 THEN "error"
             ELSE IF r * total_window_seconds < elapsed_seconds * RandDen
                  THEN "fire"
                  ELSE "wait"
        ELSE IF t < window_start THEN "early" ELSE "missed"

(* Mutant: the end of the window is excluded (now < window_end).           *)
check_sunset_on_open_end(s, t, r) ==
    LET window_start == sunset_window_start(s, t)
        window_end == sunset_window_end(s, t)
        total_window_seconds == (window_end - window_start) * 60
        elapsed_seconds == (t - window_start) * 60
    IN  IF window_start <= t /\ t < window_end
        THEN IF total_window_seconds = 0 THEN "error"
             ELSE IF \/ r * total_window_seconds < elapsed_seconds * RandDen
                     \/ elapsed_seconds * 100 > total_window_seconds * ForcedPercent
                  THEN "fire"
                  ELSE "wait"
        ELSE IF t < window_start THEN "early" ELSE "missed"

check_sunset_on(s, t, r) ==
    LET window_start == sunset_window_start(s, t)
        window_end == sunset_window_end(s, t)
        total_window_seconds == (window_end - window_start) * 60
        elapsed_seconds == (t - window_start) * 60
    IN  IF window_start <= t /\ t <= window_end
        THEN IF total_window_seconds = 0 THEN "error"
             ELSE IF \/ r * total_window_seconds < elapsed_seconds * RandDen
                     \/ elapsed_seconds * 100 > total_window_seconds * ForcedPercent
                  THEN "fire"
                  ELSE "wait"
        ELSE IF t < window_start THEN "early" ELSE "missed"

off_time(s, t) == Date(t) * DayMinutes + s.off_time_hour * 60 + s.off_time_minute

night_window_start(s, t) == off_time(s, t) - s.off_window_minutes

night_window_end(s, t) == off_time(s, t) + s.off_window_minutes

night_in_window(s, t) == night_window_start(s, t) <= t /\ t <= night_window_end(s, t)

(* Mutant: the night window forces the action after half of its length.   *)
check_night_off_half_floor(s, t, r) ==
    LET window_start == night_window_start(s, t)
        window_end == night_window_end(s, t)
        total_window_seconds == (window_end - window_start) * 60
        elapsed_seconds == (t - window_start) * 60
    IN  IF window_start <= t /\ t <= window_end
        THEN IF total_window_seconds = 0 THEN "error"
             ELSE IF \/ r * total_window_seconds < elapsed_seconds * RandDen
                     \/ elapsed_seconds * 2 > total_window_seconds
                  THEN "fire"
                  ELSE "wait"
        ELSE IF t < window_start THEN "early" ELSE "missed"

(* Mutant: a window that has ended is honoured late (no upper bound).      *)
check_night_off_catch_up(s, t, r) ==
    LET window_start == night_window_start(s, t)
        window_end == night_window_end(s, t)
        total_window_seconds == (window_end - window_start) * 60
        elapsed_seconds == (t - window_start) * 60
    IN  IF window_start <= t
        THEN IF total_window_seconds = 0 THEN "error"
             ELSE IF \/ r * total_window_seconds < elapsed_seconds * RandDen
                     \/ elapsed_seconds * 100 > total_window_seconds * ForcedPercent
                  THEN "fire"
                  ELSE "wait"
        ELSE "early"

(* Mutant: a window of length 0 fires at its instant instead of dividing.  *)
check_night_off_guarded(s, t, r) ==
    LET window_start == night_window_start(s, t)
        window_end == night_window_end(s, t)
        total_window_seconds == (window_end - window_start) * 60
        elapsed_seconds == (t - window_start) * 60
    IN  IF window_start <= t /\ t <= window_end
        THEN IF total_window_seconds = 0 THEN "fire"
             ELSE IF \/ r * total_window_seconds < elapsed_seconds * RandDen
                     \/ elapsed_seconds * 100 > total_window_seconds * ForcedPercent
                  THEN "fire"
                  ELSE "wait"
        ELSE IF t < window_start THEN "early" ELSE "missed"

(* Mutant: the window of the previous or of the next date counts when it   *)
(* contains the invocation time.                                           *)
check_night_off_adjacent_dates(s, t, r) ==
    LET Inside(a) == night_window_start(s, a) <= t /\ t <= night_window_end(s, a)
        anchor == IF Inside(t) THEN t
                  ELSE IF Inside(t - DayMinutes) THEN t - DayMinutes
                  ELSE IF Inside(t + DayMinutes) THEN t + DayMinutes
                  ELSE t
        window_start == night_window_start(s, anchor)
        window_end == night_window_end(s, anchor)
        total_window_seconds == (window_end - window_start) * 60
        elapsed_seconds == (t - window_start) * 60
    IN  IF window_start <= t /\ t <= window_end
        THEN IF total_window_seconds = 0 THEN "error"
             ELSE IF \/ r * total_window_seconds < elapsed_seconds * RandDen
                     \/ elapsed_seconds * 100 > total_window_seconds * ForcedPercent
                  THEN "fire"
                  ELSE "wait"
        ELSE IF t < window_start THEN "early" ELSE "missed"

check_night_off(s, t, r) ==
    LET window_start == night_window_start(s, t)
        window_end == night_window_end(s, t)
        total_window_seconds == (window_end - window_start) * 60
        elapsed_seconds == (t - window_start) * 60
    IN  IF window_start <= t /\ t <= window_end
        THEN IF total_window_seconds = 0 THEN "error"
             ELSE IF \/ r * total_window_seconds < elapsed_seconds * RandDen
                     \/ elapsed_seconds * 100 > total_window_seconds * ForcedPercent
                  THEN "fire"
                  ELSE "wait"
        ELSE IF t < window_start THEN "early" ELSE "missed"

----------------------------------------------------------------------------
(* Command.turn_on_all_switches / turn_off_all_switches: one request per   *)
(* record with disabled = False, in table order; a request that raises is  *)
(* caught and logged, and the loop goes on.  fail is the set of ids whose  *)
(* request raises.                                                         *)

(* Mutant: the fan-out takes every record, disabled or not.                *)
enabled_switches_unfiltered(table) == table

enabled_switches(table) == SelectSeq(table, LAMBDA sw : ~sw.disabled)

EnabledIds(table) == {sw.id : sw \in Range(enabled_switches(table))}

(* Mutant: no try/except around the request, the first failure ends the    *)
(* loop.                                                                   *)
turn_on_all_switches_abort(table, fail) ==
    LET targets == enabled_switches(table)
        failing == {i \in 1..Len(targets) : targets[i].id \in fail}
        last == IF failing = {} THEN Len(targets)
                ELSE CHOOSE i \in failing : \A j \in failing : i <= j
    IN  [i \in 1..last |->
            [sw |-> targets[i].id, op |-> "turn_on", ok |-> targets[i].id \notin fail]]

turn_on_all_switches(table, fail) ==
    LET targets == enabled_switches(table)
    IN  [i \in 1..Len(targets) |->
            [sw |-> targets[i].id, op |-> "turn_on", ok |-> targets[i].id \notin fail]]

turn_off_all_switches(table, fail) ==
    LET targets == enabled_switches(table)
    IN  [i \in 1..Len(targets) |->
            [sw |-> targets[i].id, op |-> "turn_off", ok |-> targets[i].id \notin fail]]

----------------------------------------------------------------------------
(* Command.handle of run_away_mode, one whole invocation.                  *)

NoInv == [kind |-> "none"]

(* Mutant: the enabled gate is not consulted.                              *)
away_mode_enabled_always(s) == TRUE

away_mode_enabled(s) == s.enabled

(* Mutant: the marker is compared with the timestamp, never equal to it.   *)
sunset_due_always(s, t) == s.last_sunset_on # t

sunset_due(s, t) == s.last_sunset_on # Date(t)

night_due(s, t) == s.last_night_off # Date(t)

(* Mutant: the fire does not move the marker.                             *)
sunset_marker_after_unset(s, t) == s.last_sunset_on

sunset_marker_after(s, t) == Date(t)

night_marker_after(s, t) == Date(t)

sunset_decision(s, t, r) ==
    IF sunset_due(s, t) THEN check_sunset_on(s, t, r) ELSE "skipped"

(* Mutant: a sunset-on fire ends the invocation before the night check.    *)
night_decision_unless_fired(s, t, r, onDec) ==
    IF onDec \in {"error", "fire"} THEN "notrun"
    ELSE IF night_due(s, t) THEN check_night_off(s, t, r) ELSE "skipped"

(* An exception raised by check_sunset_on leaves handle before the night   *)
(* check: "notrun".                                                        *)
night_decision(s, t, r, onDec) ==
    IF onDec = "error" THEN "notrun"
    ELSE IF night_due(s, t) THEN check_night_off(s, t, r) ELSE "skipped"

(* The draws and failure sets an invocation consumes: random() is called   *)
(* only inside a window, a fan-out runs only on a fire outside dry-run.    *)
DrawsIf(b) == IF b THEN 0..(RandDen - 1) ELSE {NoDraw}

FailSetsIf(b, table) == IF b THEN SUBSET EnabledIds(table) ELSE {{}}

handle(dry_run, rOn, rOff, failOn, failOff) ==
    IF ~away_mode_enabled(settings)
    THEN /\ inv' = [kind |-> "disabled",
                    preOn |-> settings.last_sunset_on,
                    preOff |-> settings.last_night_off]
         /\ calls' = <<>>
         /\ UNCHANGED <<now, settings, switches, fanouts>>
    ELSE
    LET onDec == sunset_decision(settings, now, rOn)
        onFire == onDec = "fire" /\ ~dry_run
        onCalls == IF onFire THEN turn_on_all_switches(switches, failOn) ELSE <<>>
        s1 == IF onFire
              THEN [settings EXCEPT !.last_sunset_on = sunset_marker_after(settings, now)]
              ELSE settings
        offDec == night_decision(s1, now, rOff, onDec)
        offFire == offDec = "fire" /\ ~dry_run
        offCalls == IF offFire THEN turn_off_all_switches(switches, failOff) ELSE <<>>
        s2 == IF offFire
              THEN [s1 EXCEPT !.last_night_off = night_marker_after(s1, now)]
              ELSE s1
    IN  /\ settings' = s2
        /\ calls' = onCalls \o offCalls
        /\ inv' = [kind |-> "run", dry_run |-> dry_run,
                   preOn |-> settings.last_sunset_on,
                   preOff |-> settings.last_night_off,
                   sunset |-> onDec, night |-> offDec,
                   rOn |-> rOn, rOff |-> rOff,
                   failOn |-> failOn, failOff |-> failOff,
                   raised |-> onDec = "error" \/ offDec = "error"]
        /\ fanouts' = [turn_on |-> fanouts.turn_on + (IF onFire THEN 1 ELSE 0),
                       turn_off |-> fanouts.turn_off + (IF offFire THEN 1 ELSE 0)]
        /\ UNCHANGED <<now, switches>>

RunAwayMode ==
    \E dry_run \in BOOLEAN :
    \E rOn \in DrawsIf(/\ away_mode_enabled(settings)
                       /\ sunset_due(settings, now)
                       /\ sunset_in_window(settings, now)) :
    \E rOff \in DrawsIf(/\ away_mode_enabled(settings)
                        /\ sunset_decision(settings, now, rOn) # "error"
                        /\ night_due(settings, now)
                        /\ night_in_window(settings, now)) :
    \E failOn \in FailSetsIf(/\ away_mode_enabled(settings)
                             /\ ~dry_run
                             /\ sunset_decision(settings, now, rOn) = "fire",
                             switches) :
    \E failOff \in FailSetsIf(/\ away_mode_enabled(settings)
                              /\ ~dry_run
                              /\ night_decision(settings, now, rOff,
                                     sunset_decision(settings, now, rOn)) = "fire",
                              switches) :
        handle(dry_run, rOn, rOff, failOn, failOff)

----------------------------------------------------------------------------
(* The clock, and the operator's edits in the admin site.                  *)

Tick ==
    /\ now + TickMinutes <= (StartHour + HorizonHours) * 60
    /\ now' = now + TickMinutes
    /\ fanouts' = IF Date(now') = Date(now) THEN fanouts
                  ELSE [turn_on |-> 0, turn_off |-> 0]
    /\ inv' = NoInv
    /\ calls' = <<>>
    /\ UNCHANGED <<settings, switches>>

(* AwayModeSettingsAdmin: the 'enabled' field of the Status fieldset.      *)
SetEnabled ==
    /\ settings' = [settings EXCEPT !.enabled = ~settings.enabled]
    /\ inv' = NoInv
    /\ calls' = <<>>
    /\ UNCHANGED <<now, switches, fanouts>>

----------------------------------------------------------------------------
(* Initial states of the scheduler specification.                          *)

(* The off times and window half-widths tried: an evening window, a window *)
(* that starts before the sunset window and overlaps it, a window that     *)
(* crosses midnight, and a window of half-width 0.                         *)
OffConfigs ==
    { [h |-> 22, m |-> 30, w |-> 25],
      [h |-> 17, m |-> 30, w |-> 30],
      [h |-> 23, m |-> 55, w |-> 15],
      [h |-> 22, m |-> 30, w |-> 0] }

SunsetWindows == {0, 30}

InitSwitch(i, dis) ==
    [id |-> i, name |-> i, ip_address |-> i, port |-> 1, hostname |-> None,
     udn |-> i, serial_number |-> i, mac_address |-> i, firmware_version |-> None,
     disabled |-> dis, last_seen |-> 0]

InitSched ==
    /\ now = StartHour * 60
    /\ \E en \in BOOLEAN, w \in SunsetWindows, off \in OffConfigs :
         settings = [enabled |-> en,
                     sunset_window_minutes |-> w,
                     off_time_hour |-> off.h,
                     off_time_minute |-> off.m,
                     off_window_minutes |-> off.w,
                     last_sunset_on |-> NoDate,
                     last_night_off |-> NoDate]
    /\ \E dis \in [1..NumSwitches -> BOOLEAN] :
         switches = [i \in 1..NumSwitches |-> InitSwitch(i, dis[i])]
    /\ inv = NoInv
    /\ calls = <<>>
    /\ fanouts = [turn_on |-> 0, turn_off |-> 0]

NextSched == Tick \/ RunAwayMode \/ SetEnabled

SpecSched == InitSched /\ [][NextSched]_vars

----------------------------------------------------------------------------
(* The Control Client of wemo/models.py.  A reply is what one HTTP POST to  *)
(* the device ends in:                                                     *)
(*   "timeout"    no answer within 5 s: requests.post raises Timeout       *)
(*   "refused"    connection refused: requests.post raises ConnectionError *)
(*   "http_error" a 4xx/5xx status: raise_for_status raises HTTPError      *)
(* or, with a success status, the body:                                    *)
(*   "bad_xml"    not XML: ET.fromstring raises ParseError                 *)
(*   "no_element" XML without the element the operation looks for         *)
(*   "not_int"    the element's text is no integer                         *)
(*   "0" "1" "8"  the element's text                                       *)

NoState == -1

ConnectivityFailures == {"timeout", "refused", "http_error"}

Bodies == {"bad_xml", "no_element", "not_int", "0", "1", "8"}

GetStateReplies == ConnectivityFailures \cup Bodies

ConnectivityErrors == {"Timeout", "ConnectionError", "HTTPError"}

(* WemoSwitch._soap_request: one POST; the exception or the response text. *)
soap_request(reply) ==
    CASE reply = "timeout"    -> [raised |-> "Timeout", text |-> "", posts |-> 1]
      [] reply = "refused"    -> [raised |-> "ConnectionError", text |-> "", posts |-> 1]
      [] reply = "http_error" -> [raised |-> "HTTPError", text |-> "", posts |-> 1]
      [] OTHER                -> [raised |-> "", text |-> reply, posts |-> 1]

(* int(state.text) on the texts a device sends.                            *)
int(text) ==
    CASE text = "0" -> [raised |-> "", value |-> 0]
      [] text = "1" -> [raised |-> "", value |-> 1]
      [] text = "8" -> [raised |-> "", value |-> 8]
      [] OTHER      -> [raised |-> "ValueError", value |-> NoState]

(* Mutant: a connectivity failure is answered with the state 0.            *)
get_state_default_off(reply) ==
    LET resp == soap_request(reply)
    IN  IF resp.raised # "" THEN [raised |-> "", value |-> 0, posts |-> resp.posts]
        ELSE IF resp.text = "bad_xml"
        THEN [raised |-> "ParseError", value |-> NoState, posts |-> resp.posts]
        ELSE IF resp.text = "no_element"
        THEN [raised |-> "", value |-> NoState, posts |-> resp.posts]
        ELSE [raised |-> int(resp.text).raised, value |-> int(resp.text).value,
              posts |-> resp.posts]

(* Mutant: every state that is not 0 is reported as 1.                     *)
get_state_coerced(reply) ==
    LET resp == soap_request(reply)
    IN  IF resp.raised # ""
        THEN [raised |-> resp.raised, value |-> NoState, posts |-> resp.posts]
        ELSE IF resp.text \in {"bad_xml", "no_element", "not_int"}
        THEN [raised |-> "ParseError", value |-> NoState, posts |-> resp.posts]
        ELSE [raised |-> "", value |-> IF int(resp.text).value = 0 THEN 0 ELSE 1,
              posts |-> resp.posts]

(* WemoSwitch.get_state: the exception, or the integer of the BinaryState  *)
(* element; NoState is the None returned when the element is missing.      *)
get_state(reply) ==
    LET resp == soap_request(reply)
    IN  IF resp.raised # ""
        THEN [raised |-> resp.raised, value |-> NoState, posts |-> resp.posts]
        ELSE IF resp.text = "bad_xml"
        THEN [raised |-> "ParseError", value |-> NoState, posts |-> resp.posts]
        ELSE IF resp.text = "no_element"
        THEN [raised |-> "", value |-> NoState, posts |-> resp.posts]
        ELSE [raised |-> int(resp.text).raised, value |-> int(resp.text).value,
              posts |-> resp.posts]

(* WemoSwitch.get_firmware_version: the text of the FirmwareVersion        *)
(* element, "None" for the None returned when the element is missing.      *)
get_firmware_version(reply) ==
    LET resp == soap_request(reply)
    IN  IF resp.raised # ""
        THEN [raised |-> resp.raised, text |-> "", posts |-> resp.posts]
        ELSE IF resp.text = "bad_xml"
        THEN [raised |-> "ParseError", text |-> "", posts |-> resp.posts]
        ELSE IF resp.text = "no_element"
        THEN [raised |-> "", text |-> "None", posts |-> resp.posts]
        ELSE [raised |-> "", text |-> resp.text, posts |-> resp.posts]

(* turn_on, turn_off, get_device_info, fetch_rules, store_rules: the text  *)
(* of the response, unparsed.                                              *)
soap_operation(reply) == soap_request(reply)

ClientOperations ==
    {"turn_on", "turn_off", "get_state", "get_device_info",
     "get_firmware_version", "fetch_rules", "store_rules"}

(* The result of one operation of the client: the exception, whether and   *)
(* what it returned, and the number of requests it sent.                   *)
client_call(op, reply) ==
    CASE op = "get_state" ->
           [raised |-> get_state(reply).raised,
            state |-> get_state(reply).value,
            text |-> "",
            posts |-> get_state(reply).posts]
      [] op = "get_firmware_version" ->
           [raised |-> get_firmware_version(reply).raised,
            state |-> NoState,
            text |-> get_firmware_version(reply).text,
            posts |-> get_firmware_version(reply).posts]
      [] OTHER ->
           [raised |-> soap_operation(reply).raised,
            state |-> NoState,
            text |-> soap_operation(reply).text,
            posts |-> soap_operation(reply).posts]

(* save(update_fields=[...]) of an instance loaded earlier: the check of   *)
(* WemoSwitch.save, then only the named fields of the row are written.     *)
save_update_fields(table, inst, fields) ==
    IF inst.udn = None /\ inst.serial_number = None
    THEN [raised |-> "ValueError", table |-> table]
    ELSE [raised |-> "",
          table |-> [i \in 1..Len(table) |->
                        IF table[i].id = inst.id
                        THEN [f \in DOMAIN table[i] |->
                                 IF f \in fields THEN inst[f] ELSE table[i][f]]
                        ELSE table[i]]]

(* Mutant: ping writes the whole instance back.                            *)
ping_saves_all_fields(table, inst, reply, t) ==
    LET st == get_state(reply)
        saved == save_update_fields(table, [inst EXCEPT !.last_seen = t], DOMAIN inst)
    IN  IF st.raised # "" \/ saved.raised # ""
        THEN [raised |-> "", value |-> NoState, table |-> table, posts |-> st.posts]
        ELSE [raised |-> "", value |-> st.value, table |-> saved.table,
              posts |-> st.posts]

(* WemoSwitch.ping on an instance: the state and the touched row, or None  *)
(* (NoState) and the table as it was when anything raised.                 *)
ping(table, inst, reply, t) ==
    LET st == get_state(reply)
        saved == save_update_fields(table, [inst EXCEPT !.last_seen = t], {"last_seen"})
    IN  IF st.raised # "" \/ saved.raised # ""
        THEN [raised |-> "", value |-> NoState, table |-> table, posts |-> st.posts]
        ELSE [raised |-> "", value |-> st.value, table |-> saved.table,
              posts |-> st.posts]

----------------------------------------------------------------------------
(* The views of wemo/views.py.                                             *)

RECURSIVE order_by_name(_)
order_by_name(table) ==
    IF table = <<>> THEN <<>>
    ELSE LET k == CHOOSE i \in 1..Len(table) :
                     \A j \in 1..Len(table) :
                        \/ table[i].name < table[j].name
                        \/ table[i].name = table[j].name /\ i <= j
         IN  <<table[k]>> \o
             order_by_name([i \in 1..(Len(table) - 1) |->
                               IF i < k THEN table[i] ELSE table[i + 1]])

main_switches(table) == order_by_name(SelectSeq(table, LAMBDA sw : ~sw.disabled))

(* get_object_or_404(WemoSwitch, id=switch_id, disabled=False): the        *)
(* position of the record in the table, 0 for Http404.                     *)
get_object_or_404(table, switch_id) ==
    LET found == {i \in 1..Len(table) :
                     table[i].id = switch_id /\ ~table[i].disabled}
    IN  IF found = {} THEN 0 ELSE CHOOSE i \in found : TRUE

(* wemo_main: the state of every enabled switch, in name order.            *)
wemo_main(replies) ==
    LET targets == main_switches(switches)
    IN  /\ calls' = [i \in 1..Len(targets) |->
                        [sw |-> targets[i].id, op |-> "get_state",
                         ok |-> get_state(replies[targets[i].id]).raised = ""]]
        /\ inv' = [kind |-> "main",
                   online |-> {targets[i].id : i \in
                                 {j \in 1..Len(targets) :
                                     get_state(replies[targets[j].id]).raised = ""}},
                   total |-> Len(targets)]
        /\ UNCHANGED <<now, settings, switches, fanouts>>

WemoMain ==
    \E replies \in [{sw.id : sw \in Range(switches)} -> GetStateReplies] :
        wemo_main(replies)

(* wemo_toggle: read the state, send the opposite, touch last_seen.        *)
wemo_toggle(switch_id, reply, control_ok) ==
    LET k == get_object_or_404(switches, switch_id)
        st == get_state(reply)
        read == [sw |-> switch_id, op |-> "get_state", ok |-> st.raised = ""]
        op == IF st.value = 1 THEN "turn_off" ELSE "turn_on"
    IN  IF k = 0
        THEN /\ calls' = <<>>
             /\ inv' = [kind |-> "toggle", sw |-> switch_id, success |-> FALSE,
                        error |-> "unexpected"]
             /\ UNCHANGED <<now, settings, switches, fanouts>>
        ELSE IF st.raised # "" \/ st.value = NoState
        THEN /\ calls' = <<read>>
             /\ inv' = [kind |-> "toggle", sw |-> switch_id, success |-> FALSE,
                        error |-> "offline"]
             /\ UNCHANGED <<now, settings, switches, fanouts>>
        ELSE IF ~control_ok
        THEN /\ calls' = <<read, [sw |-> switch_id, op |-> op, ok |-> FALSE]>>
             /\ inv' = [kind |-> "toggle", sw |-> switch_id, success |-> FALSE,
                        error |-> "control"]
             /\ UNCHANGED <<now, settings, switches, fanouts>>
        ELSE /\ calls' = <<read, [sw |-> switch_id, op |-> op, ok |-> TRUE]>>
             /\ switches' = [switches EXCEPT ![k].last_seen = now]
             /\ inv' = [kind |-> "toggle", sw |-> switch_id, success |-> TRUE,
                        error |-> ""]
             /\ UNCHANGED <<now, settings, fanouts>>

WemoToggle ==
    \E switch_id \in {sw.id : sw \in Range(switches)} :
    \E reply \in GetStateReplies :
    \E control_ok \in IF get_object_or_404(switches, switch_id) # 0
                         /\ get_state(reply).raised = ""
                         /\ get_state(reply).value # NoState
                      THEN BOOLEAN ELSE {TRUE} :
        wemo_toggle(switch_id, reply, control_ok)

(* wemo_refresh_status: read the state and touch last_seen.                *)
wemo_refresh_status(switch_id, reply) ==
    LET k == get_object_or_404(switches, switch_id)
        st == get_state(reply)
        read == [sw |-> switch_id, op |-> "get_state", ok |-> st.raised = ""]
    IN  IF k = 0
        THEN /\ calls' = <<>>
             /\ inv' = [kind |-> "refresh", sw |-> switch_id, success |-> FALSE,
                        state |-> NoState]
             /\ UNCHANGED <<now, settings, switches, fanouts>>
        ELSE IF st.raised # ""
        THEN /\ calls' = <<read>>
             /\ inv' = [kind |-> "refresh", sw |-> switch_id, success |-> FALSE,
                        state |-> NoState]
             /\ UNCHANGED <<now, settings, switches, fanouts>>
        ELSE /\ calls' = <<read>>
             /\ switches' = [switches EXCEPT ![k].last_seen = now]
             /\ inv' = [kind |-> "refresh", sw |-> switch_id, success |-> TRUE,
                        state |-> st.value]
             /\ UNCHANGED <<now, settings, fanouts>>

WemoRefreshStatus ==
    \E switch_id \in {sw.id : sw \in Range(switches)} :
    \E reply \in IF get_object_or_404(switches, switch_id) # 0
                 THEN GetStateReplies ELSE {"refused"} :
        wemo_refresh_status(switch_id, reply)

----------------------------------------------------------------------------
(* The admin site of wemo/admin.py: the enable and disable actions on the  *)
(* selected records, and the status badge of the change list, which reads  *)
(* the state of the records that are not disabled.                         *)

enable_devices(selected) ==
    /\ switches' = [i \in 1..Len(switches) |->
                       IF switches[i].id \in selected
                       THEN [switches[i] EXCEPT !.disabled = FALSE]
                       ELSE switches[i]]
    /\ inv' = [kind |-> "admin"]
    /\ calls' = <<>>
    /\ UNCHANGED <<now, settings, fanouts>>

disable_devices(selected) ==
    /\ switches' = [i \in 1..Len(switches) |->
                       IF switches[i].id \in selected
                       THEN [switches[i] EXCEPT !.disabled = TRUE]
                       ELSE switches[i]]
    /\ inv' = [kind |-> "admin"]
    /\ calls' = <<>>
    /\ UNCHANGED <<now, settings, fanouts>>

EnableDevices ==
    \E selected \in SUBSET {sw.id : sw \in Range(switches)} :
        /\ \E id \in selected : TRUE
        /\ \E i \in 1..Len(switches) : switches[i].id \in selected /\ switches[i].disabled
        /\ enable_devices(selected)

DisableDevices ==
    \E selected \in SUBSET {sw.id : sw \in Range(switches)} :
        /\ \E i \in 1..Len(switches) : switches[i].id \in selected /\ ~switches[i].disabled
        /\ disable_devices(selected)

status_badge(obj, reply) ==
    IF obj.disabled THEN <<>>
    ELSE <<[sw |-> obj.id, op |-> "get_state", ok |-> get_state(reply).raised = ""]>>

RECURSIVE badges(_, _)
badges(table, replies) ==
    IF table = <<>> THEN <<>>
    ELSE status_badge(Head(table), replies[Head(table).id]) \o badges(Tail(table), replies)

AdminChangeList ==
    \E replies \in [{sw.id : sw \in Range(switches)} -> {"refused", "1"}] :
        /\ calls' = badges(switches, replies)
        /\ inv' = [kind |-> "admin"]
        /\ UNCHANGED <<now, settings, switches, fanouts>>

----------------------------------------------------------------------------
(* The specification of the control operations: the scheduler, the views   *)
(* and the admin actions at an instant inside the sunset window or inside  *)
(* the night window.  One request is served at a time: Respond hands the   *)
(* answer of the last operation back before the next one starts.           *)

OpsOffConfig == [h |-> 22, m |-> 30, w |-> 25]

InitOps ==
    /\ now \in {sunset_time(0), OpsOffConfig.h * 60 + OpsOffConfig.m}
    /\ settings = [enabled |-> TRUE,
                   sunset_window_minutes |-> 30,
                   off_time_hour |-> OpsOffConfig.h,
                   off_time_minute |-> OpsOffConfig.m,
                   off_window_minutes |-> OpsOffConfig.w,
                   last_sunset_on |-> NoDate,
                   last_night_off |-> NoDate]
    /\ \E dis \in [1..NumSwitches -> BOOLEAN] :
         switches = [i \in 1..NumSwitches |-> InitSwitch(i, dis[i])]
    /\ inv = NoInv
    /\ calls = <<>>
    /\ fanouts = [turn_on |-> 0, turn_off |-> 0]

Respond ==
    /\ inv # NoInv
    /\ inv' = NoInv
    /\ calls' = <<>>
    /\ UNCHANGED <<now, settings, switches, fanouts>>

NextOps ==
    \/ inv = NoInv /\ RunAwayMode
    \/ inv = NoInv /\ WemoMain
    \/ inv = NoInv /\ WemoToggle
    \/ inv = NoInv /\ WemoRefreshStatus
    \/ inv = NoInv /\ EnableDevices
    \/ inv = NoInv /\ DisableDevices
    \/ inv = NoInv /\ AdminChangeList
    \/ Respond

SpecOps == InitOps /\ [][NextOps]_vars

----------------------------------------------------------------------------
(* Discovery: wemo/management/commands/discover_wemo.py.  A discovered     *)
(* device is a record of the attributes the command reads: name, host,     *)
(* port, udn, serial, mac, firmware_version (model, model_name and         *)
(* manufacturer are only copied into a new record).  dns maps an address   *)
(* to the host name socket.gethostbyaddr finds for it, None when the       *)
(* lookup fails.                                                           *)

safe_gethost(dns, ip) == dns[ip]

(* filter(...).first(): the position of the first record, in table order,  *)
(* among the positions hits that satisfy the filter; 0 when there is none. *)
first(hits) ==
    IF hits = {} THEN 0 ELSE CHOOSE i \in hits : \A j \in hits : i <= j

NoMatch == [exists |-> FALSE, match_type |-> "", pos |-> 0]

(* Mutant: the serial number is tried before the UDN.                      *)
device_exists_serial_first(table, device) ==
    LET byUdn == IF device.udn # None
                 THEN first({i \in 1..Len(table) : table[i].udn = device.udn}) ELSE 0
        bySerial == IF device.serial # None
                    THEN first({i \in 1..Len(table) : table[i].serial_number = device.serial}) ELSE 0
        byMac == IF device.mac # None
                 THEN first({i \in 1..Len(table) : table[i].mac_address = device.mac}) ELSE 0
        byIpName == IF device.host # None /\ device.name # None
                    THEN first({i \in 1..Len(table) :
                                   /\ table[i].ip_address = device.host
                                   /\ table[i].name = device.name})
                    ELSE 0
    IN  IF bySerial # 0
        THEN [exists |-> TRUE, match_type |-> "Serial Number", pos |-> bySerial]
        ELSE IF byUdn # 0
        THEN [exists |-> TRUE, match_type |-> "UDN", pos |-> byUdn]
        ELSE IF byMac # 0
        THEN [exists |-> TRUE, match_type |-> "MAC Address", pos |-> byMac]
        ELSE IF byIpName # 0
        THEN [exists |-> TRUE, match_type |-> "IP + Name", pos |-> byIpName]
        ELSE NoMatch

(* Command.device_exists.                                                  *)
device_exists(table, device) ==
    LET byUdn == IF device.udn # None
                 THEN first({i \in 1..Len(table) : table[i].udn = device.udn}) ELSE 0
        bySerial == IF device.serial # None
                    THEN first({i \in 1..Len(table) : table[i].serial_number = device.serial}) ELSE 0
        byMac == IF device.mac # None
                 THEN first({i \in 1..Len(table) : table[i].mac_address = device.mac}) ELSE 0
        byIpName == IF device.host # None /\ device.name # None
                    THEN first({i \in 1..Len(table) :
                                   /\ table[i].ip_address = device.host
                                   /\ table[i].name = device.name})
                    ELSE 0
    IN  IF byUdn # 0
        THEN [exists |-> TRUE, match_type |-> "UDN", pos |-> byUdn]
        ELSE IF bySerial # 0
        THEN [exists |-> TRUE, match_type |-> "Serial Number", pos |-> bySerial]
        ELSE IF byMac # 0
        THEN [exists |-> TRUE, match_type |-> "MAC Address", pos |-> byMac]
        ELSE IF byIpName # 0
        THEN [exists |-> TRUE, match_type |-> "IP + Name", pos |-> byIpName]
        ELSE NoMatch

(* WemoSwitch.save and the constraints of the table.  rec.id = 0 is a      *)
(* record not yet stored: it gets the next id and, being the newest, the   *)
(* first place in the table.  last_seen is auto_now.                       *)
(*   "ValueError"     neither udn nor serial_number                        *)
(*   "IntegrityError" ip_address or name NULL, udn or serial_number taken  *)
next_id(table) ==
    IF table = <<>> THEN 1
    ELSE 1 + (CHOOSE m \in {sw.id : sw \in Range(table)} :
                 \A sw \in Range(table) : sw.id <= m)

(* Mutant: save without the check of the identifiers.                     *)
save_unchecked(table, rec, t) ==
    IF \/ rec.ip_address = None
       \/ rec.name = None
       \/ \E sw \in Range(table) :
             /\ sw.id # rec.id
             /\ \/ sw.udn # None /\ sw.udn = rec.udn
                \/ sw.serial_number # None /\ sw.serial_number = rec.serial_number
    THEN [raised |-> "IntegrityError", table |-> table]
    ELSE IF rec.id = 0
    THEN [raised |-> "",
          table |-> <<[rec EXCEPT !.id = next_id(table), !.last_seen = t]>> \o table]
    ELSE [raised |-> "",
          table |-> [i \in 1..Len(table) |->
                        IF table[i].id = rec.id
                        THEN [rec EXCEPT !.last_seen = t] ELSE table[i]]]

save(table, rec, t) ==
    IF rec.udn = None /\ rec.serial_number = None
    THEN [raised |-> "ValueError", table |-> table]
    ELSE IF \/ rec.ip_address = None
            \/ rec.name = None
            \/ \E sw \in Range(table) :
                  /\ sw.id # rec.id
                  /\ \/ sw.udn # None /\ sw.udn = rec.udn
                     \/ sw.serial_number # None /\ sw.serial_number = rec.serial_number
    THEN [raised |-> "IntegrityError", table |-> table]
    ELSE IF rec.id = 0
    THEN [raised |-> "",
          table |-> <<[rec EXCEPT !.id = next_id(table), !.last_seen = t]>> \o table]
    ELSE [raised |-> "",
          table |-> [i \in 1..Len(table) |->
                        IF table[i].id = rec.id
                        THEN [rec EXCEPT !.last_seen = t] ELSE table[i]]]

(* Mutant: the record is saved whether or not a field changed.            *)
update_existing_device_always_saves(table, pos, device, dns, t) ==
    LET old == table[pos]
        changes ==
            (IF old.ip_address # device.host THEN {"IP"} ELSE {})
            \cup (IF old.port # device.port THEN {"Port"} ELSE {})
        saved == save(table, [old EXCEPT !.ip_address = device.host,
                                         !.port = device.port], t)
    IN  [raised |-> saved.raised, table |-> saved.table, changes |-> changes]

(* Command.update_existing_device: the changed fields, and the table after *)
(* existing_switch.save() when there are any.                              *)
update_existing_device(table, pos, device, dns, t) ==
    LET old == table[pos]
        host == device.host
        port == device.port
        hostname == IF host # None THEN safe_gethost(dns, host) ELSE None
        mac == device.mac
        firmware == device.firmware_version
        name == device.name
        changes ==
            (IF old.ip_address # host THEN {"IP"} ELSE {})
            \cup (IF old.port # port THEN {"Port"} ELSE {})
            \cup (IF old.hostname # hostname THEN {"Hostname"} ELSE {})
            \cup (IF mac # None /\ old.mac_address # mac THEN {"MAC"} ELSE {})
            \cup (IF firmware # None /\ old.firmware_version # firmware
                  THEN {"Firmware"} ELSE {})
            \cup (IF name # None /\ old.name # name THEN {"Name"} ELSE {})
        new == [old EXCEPT
                  !.ip_address = host,
                  !.port = port,
                  !.hostname = hostname,
                  !.mac_address = IF "MAC" \in changes THEN mac ELSE @,
                  !.firmware_version = IF "Firmware" \in changes THEN firmware ELSE @,
                  !.name = IF "Name" \in changes THEN name ELSE @]
        saved == save(table, new, t)
    IN  IF changes = {}
        THEN [raised |-> "", table |-> table, changes |-> {}]
        ELSE [raised |-> saved.raised, table |-> saved.table, changes |-> changes]

(* Command.create_wemo_switch: the unsaved record, or no switch (the       *)
(* method returns None) without a host or a name.                          *)
NoSwitch == [skipped |-> "missing required host or name"]

create_wemo_switch(device, dns) ==
    IF device.host = None \/ device.name = None THEN NoSwitch
    ELSE [id |-> 0, name |-> device.name,
          ip_address |-> device.host, port |-> device.port,
          hostname |-> safe_gethost(dns, device.host),
          udn |-> device.udn, serial_number |-> device.serial,
          mac_address |-> device.mac,
          firmware_version |-> device.firmware_version,
          disabled |-> FALSE, last_seen |-> None]

(* The loop of Command.handle over the discovered devices from position i. *)
(* acc holds the table, the records to add, the outcome of each device     *)
(* ("updated", "unchanged", "new", "skipped") and the exception that left  *)
(* the loop, if any: nothing catches an exception of save() here.          *)
RECURSIVE reconcile(_, _, _, _, _)
reconcile(acc, devices, i, dns, t) ==
    IF i > Len(devices) \/ acc.raised # "" THEN acc
    ELSE LET device == devices[i]
             m == device_exists(acc.table, device)
             upd == update_existing_device(acc.table, m.pos, device, dns, t)
             switch == create_wemo_switch(device, dns)
         IN  IF m.exists
             THEN IF upd.raised # ""
                  THEN [acc EXCEPT !.raised = upd.raised]
                  ELSE reconcile([acc EXCEPT
                                    !.table = upd.table,
                                    !.outcomes = Append(@, IF upd.changes # {}
                                                           THEN "updated"
                                                           ELSE "unchanged")],
                                 devices, i + 1, dns, t)
             ELSE IF switch = NoSwitch
                  THEN reconcile([acc EXCEPT !.outcomes = Append(@, "skipped")],
                                 devices, i + 1, dns, t)
                  ELSE reconcile([acc EXCEPT
                                    !.new_devices = Append(@, switch),
                                    !.outcomes = Append(@, "new")],
                                 devices, i + 1, dns, t)

(* with transaction.atomic(): for switch in new_devices: switch.save().    *)
(* The first exception rolls every insertion of the block back.            *)
RECURSIVE save_new_devices(_, _, _)
save_new_devices(table, new_devices, t) ==
    IF new_devices = <<>> THEN [raised |-> "", table |-> table]
    ELSE LET one == save(table, Head(new_devices), t)
         IN  IF one.raised # "" THEN one
             ELSE save_new_devices(one.table, Tail(new_devices), t)

(* Mutant: the new records are saved without a transaction, so the ones    *)
(* saved before a failure stay.                                            *)
discover_wemo_autocommit(devices, dry_run, dns) ==
    LET looped == reconcile([table |-> switches, new_devices |-> <<>>,
                             outcomes |-> <<>>, raised |-> ""],
                            devices, 1, dns, now)
        stored == save_new_devices(looped.table, looped.new_devices, now)
        commit == looped.raised = "" /\ ~dry_run /\ stored.raised = ""
        raised == IF looped.raised # "" THEN looped.raised
                  ELSE IF ~dry_run /\ stored.raised # "" THEN "CommandError"
                  ELSE ""
    IN  /\ switches' = IF looped.raised = "" /\ ~dry_run
                       THEN stored.table ELSE looped.table
        /\ inv' = [kind |-> "discover", devices |-> devices, dry_run |-> dry_run,
                   dns |-> dns, before |-> switches,
                   outcomes |-> looped.outcomes,
                   new_devices |-> looped.new_devices,
                   added |-> IF commit THEN Len(looped.new_devices) ELSE 0,
                   raised |-> raised,
                   cause |-> IF raised = "CommandError" THEN stored.raised ELSE raised,
                   success |-> raised = ""]
        /\ calls' = <<>>
        /\ UNCHANGED <<now, settings, fanouts>>

(* Command.handle of discover_wemo, one whole run.                         *)
discover_wemo(devices, dry_run, dns) ==
    LET looped == reconcile([table |-> switches, new_devices |-> <<>>,
                             outcomes |-> <<>>, raised |-> ""],
                            devices, 1, dns, now)
        stored == save_new_devices(looped.table, looped.new_devices, now)
        commit == looped.raised = "" /\ ~dry_run /\ stored.raised = ""
        raised == IF looped.raised # "" THEN looped.raised
                  ELSE IF ~dry_run /\ stored.raised # "" THEN "CommandError"
                  ELSE ""
    IN  /\ switches' = IF commit THEN stored.table ELSE looped.table
        /\ inv' = [kind |-> "discover", devices |-> devices, dry_run |-> dry_run,
                   dns |-> dns, before |-> switches,
                   outcomes |-> looped.outcomes,
                   new_devices |-> looped.new_devices,
                   added |-> IF commit THEN Len(looped.new_devices) ELSE 0,
                   raised |-> raised,
                   cause |-> IF raised = "CommandError" THEN stored.raised ELSE raised,
                   success |-> raised = ""]
        /\ calls' = <<>>
        /\ UNCHANGED <<now, settings, fanouts>>

----------------------------------------------------------------------------
(* Discovery from the web page: wemo_discover of wemo/views.py.            *)

(* safe_gethost of the view is also called with no host: gethostbyaddr     *)
(* raises and the helper returns None.                                     *)
view_safe_gethost(dns, ip) == IF ip = None THEN None ELSE dns[ip]

(* The matching part of device_exists_and_update: if / elif, so only the   *)
(* first non-empty identifier is looked up.                                *)
view_existing_switch(table, device) ==
    IF device.udn # None
    THEN first({i \in 1..Len(table) : table[i].udn = device.udn})
    ELSE IF device.serial # None
    THEN first({i \in 1..Len(table) : table[i].serial_number = device.serial})
    ELSE IF device.mac # None
    THEN first({i \in 1..Len(table) : table[i].mac_address = device.mac})
    ELSE IF device.host # None /\ device.name # None
    THEN first({i \in 1..Len(table) :
                   /\ table[i].ip_address = device.host
                   /\ table[i].name = device.name})
    ELSE 0

(* device_exists_and_update: "updated", "unchanged" or "none" (the view's  *)
(* None), the table after existing_switch.save(), and its exception.       *)
device_exists_and_update(table, device, dns, t) ==
    LET pos == view_existing_switch(table, device)
        old == table[pos]
        host == device.host
        port == device.port
        hostname == IF host # None THEN dns[host] ELSE None
        mac == device.mac
        changes ==
            (IF old.ip_address # host THEN {"IP"} ELSE {})
            \cup (IF old.port # port THEN {"Port"} ELSE {})
            \cup (IF old.hostname # hostname THEN {"Hostname"} ELSE {})
            \cup (IF mac # None /\ old.mac_address # mac THEN {"MAC"} ELSE {})
        new == [old EXCEPT
                  !.ip_address = host,
                  !.port = port,
                  !.hostname = hostname,
                  !.mac_address = IF "MAC" \in changes THEN mac ELSE @]
        saved == save(table, new, t)
    IN  IF pos = 0
        THEN [result |-> "none", raised |-> "", table |-> table, changes |-> {}]
        ELSE IF changes = {}
        THEN [result |-> "unchanged", raised |-> "", table |-> table, changes |-> {}]
        ELSE [result |-> "updated", raised |-> saved.raised, table |-> saved.table,
              changes |-> changes]

(* The record the view builds for a device that matched nothing.           *)
view_new_switch(device, dns) ==
    [id |-> 0, name |-> device.name,
     ip_address |-> device.host, port |-> device.port,
     hostname |-> view_safe_gethost(dns, device.host),
     udn |-> device.udn, serial_number |-> device.serial,
     mac_address |-> device.mac,
     firmware_version |-> device.firmware_version,
     disabled |-> FALSE, last_seen |-> None]

(* The loop of wemo_discover from position i.  An exception of the update  *)
(* leaves the loop for the outer handler; an exception of the creation is  *)
(* caught for that device alone and recorded as "error".                   *)
RECURSIVE view_reconcile(_, _, _, _, _)
view_reconcile(acc, devices, i, dns, t) ==
    IF i > Len(devices) \/ acc.raised # "" THEN acc
    ELSE LET device == devices[i]
             upd == device_exists_and_update(acc.table, device, dns, t)
             created == save(acc.table, view_new_switch(device, dns), t)
         IN  IF upd.result # "none"
             THEN IF upd.raised # ""
                  THEN [acc EXCEPT !.raised = upd.raised]
                  ELSE view_reconcile([acc EXCEPT
                                         !.table = upd.table,
                                         !.outcomes = Append(@, upd.result)],
                                      devices, i + 1, dns, t)
             ELSE view_reconcile([acc EXCEPT
                                    !.table = created.table,
                                    !.outcomes = Append(@, IF created.raised = ""
                                                           THEN "added" ELSE "error"),
                                    !.errors = Append(@, created.raised)],
                                 devices, i + 1, dns, t)

(* wemo_discover, one whole request.                                       *)
wemo_discover(devices, dns) ==
    LET looped == view_reconcile([table |-> switches, outcomes |-> <<>>,
                                  errors |-> <<>>, raised |-> ""],
                                 devices, 1, dns, now)
    IN  /\ switches' = looped.table
        /\ inv' = [kind |-> "web_discover", devices |-> devices, dry_run |-> FALSE,
                   dns |-> dns, before |-> switches,
                   outcomes |-> looped.outcomes,
                   new_devices |-> <<>>,
                   added |-> Cardinality({k \in 1..Len(looped.outcomes) :
                                             looped.outcomes[k] = "added"}),
                   raised |-> looped.raised,
                   cause |-> looped.raised,
                   success |-> looped.raised = ""]
        /\ calls' = <<>>
        /\ UNCHANGED <<now, settings, fanouts>>

----------------------------------------------------------------------------
(* Inventories for the discovery specifications: tables the application    *)
(* can hold.  Every stored record passed save(): it has a udn or a serial  *)
(* number, and no two records share a udn or a serial number.  The table   *)
(* is in Meta.ordering, newest first, so the ids descend.                  *)

MaxRecords == 2
MaxKnown == 1
MaxBatch == 2

Stored(u, s, m, ip) ==
    [InitSwitch(1, FALSE) EXCEPT !.udn = u, !.serial_number = s,
                                 !.mac_address = m, !.ip_address = ip]

Consistent(table) ==
    /\ \A i \in 1..Len(table) :
          table[i].udn # None \/ table[i].serial_number # None
    /\ \A i, j \in 1..Len(table) :
          i < j => /\ table[i].udn = None \/ table[i].udn # table[j].udn
                   /\ \/ table[i].serial_number = None
                      \/ table[i].serial_number # table[j].serial_number

Inventories(records, n) ==
    { [i \in 1..k |-> [f[i] EXCEPT !.id = k - i + 1]] :
        <<k, f>> \in { kf \in UNION { {k} \X [1..k -> records] : k \in 0..n } :
                          Consistent(kf[2]) } }

DefaultSettings ==
    [enabled |-> TRUE,
     sunset_window_minutes |-> 30,
     off_time_hour |-> OpsOffConfig.h,
     off_time_minute |-> OpsOffConfig.m,
     off_window_minutes |-> OpsOffConfig.w,
     last_sunset_on |-> NoDate,
     last_night_off |-> NoDate]

(* SpecMatch: the matcher applied to one discovered device.                *)
MatchRecords ==
    { Stored(u, s, m, ip) : u \in {None, 1, 2}, s \in {None, 1, 2},
                            m \in {None, 1}, ip \in {1, 2} }

MatchDevices ==
    [name : {None, 1, 2}, host : {None, 1, 2}, port : {1},
     udn : {None, 1, 2}, serial : {None, 1, 2}, mac : {None, 1, 2},
     firmware_version : {None}]

InitMatch ==
    /\ now = StartHour * 60
    /\ settings = DefaultSettings
    /\ switches \in Inventories(MatchRecords, MaxRecords)
    /\ inv = NoInv
    /\ calls = <<>>
    /\ fanouts = [turn_on |-> 0, turn_off |-> 0]

DeviceExists ==
    /\ inv = NoInv
    /\ \E device \in MatchDevices :
          inv' = [kind |-> "match", device |-> device,
                  result |-> device_exists(switches, device)]
    /\ UNCHANGED <<now, settings, switches, calls, fanouts>>

(* The matching part of the web page's device_exists_and_update on the     *)
(* same inputs.                                                            *)
ViewExistingSwitch ==
    /\ inv = NoInv
    /\ \E device \in MatchDevices :
          inv' = [kind |-> "view_match", device |-> device,
                  pos |-> view_existing_switch(switches, device)]
    /\ UNCHANGED <<now, settings, switches, calls, fanouts>>

NextMatch == DeviceExists \/ ViewExistingSwitch

SpecMatch == InitMatch /\ [][NextMatch]_vars

(* SpecDisc: one run of the discovery command over a batch of devices.     *)
DiscRecords ==
    { Stored(u, s, None, 1) : u \in {None, 1}, s \in {None, 1} }

DiscDevices ==
    [name : {1}, host : {None, 1, 2}, port : {1},
     udn : {None, 1}, serial : {None, 1}, mac : {None},
     firmware_version : {None}]

DnsChoices == { [h \in {1, 2} |-> None], [h \in {1, 2} |-> h] }

InitDisc ==
    /\ now = StartHour * 60
    /\ settings = DefaultSettings
    /\ switches \in Inventories(DiscRecords, MaxKnown)
    /\ inv = NoInv
    /\ calls = <<>>
    /\ fanouts = [turn_on |-> 0, turn_off |-> 0]

DiscoverWemo ==
    /\ inv = NoInv
    /\ \E n \in 1..MaxBatch :
         \E devices \in [1..n -> DiscDevices], dry_run \in BOOLEAN, dns \in DnsChoices :
            discover_wemo(devices, dry_run, dns)

WemoDiscover ==
    /\ inv = NoInv
    /\ \E n \in 1..MaxBatch :
         \E devices \in [1..n -> DiscDevices], dns \in DnsChoices :
            wemo_discover(devices, dns)

NextDisc == DiscoverWemo \/ WemoDiscover

SpecDisc == InitDisc /\ [][NextDisc]_vars

(* SpecUpdate: one discovered device reconciled with the one stored record *)
(* it matches by UDN, by the command and by the web page.                  *)
UpdateRecords ==
    { [InitSwitch(1, FALSE) EXCEPT !.serial_number = None, !.ip_address = ip,
                                   !.port = port, !.hostname = hostname,
                                   !.mac_address = mac, !.firmware_version = fw,
                                   !.name = name] :
        ip \in {1, 2}, port \in {None, 1}, hostname \in {None, 1, 2},
        mac \in {None, 1}, fw \in {None, 1}, name \in {1, 2} }

UpdateDevices ==
    [name : {None, 1, 2}, host : {None, 1, 2}, port : {None, 1, 2},
     udn : {1}, serial : {None}, mac : {None, 1, 2},
     firmware_version : {None, 1, 2}]

InitUpdate ==
    /\ now = StartHour * 60
    /\ settings = DefaultSettings
    /\ switches \in { <<rec>> : rec \in UpdateRecords }
    /\ inv = NoInv
    /\ calls = <<>>
    /\ fanouts = [turn_on |-> 0, turn_off |-> 0]

(* The step of the command's loop for a device that matches a record.      *)
UpdateExistingDevice ==
    /\ inv = NoInv
    /\ \E device \in UpdateDevices, dns \in DnsChoices :
          LET m == device_exists(switches, device)
              upd == update_existing_device(switches, m.pos, device, dns, now)
          IN  /\ m.exists
              /\ switches' = upd.table
              /\ inv' = [kind |-> "update", path |-> "command", device |-> device,
                         dns |-> dns, pos |-> m.pos, before |-> switches[m.pos],
                         changes |-> upd.changes, raised |-> upd.raised]
    /\ UNCHANGED <<now, settings, calls, fanouts>>

(* The same step in the web page's loop.                                   *)
ViewUpdate ==
    /\ inv = NoInv
    /\ \E device \in UpdateDevices, dns \in DnsChoices :
          LET pos == view_existing_switch(switches, device)
              upd == device_exists_and_update(switches, device, dns, now)
          IN  /\ pos # 0
              /\ switches' = upd.table
              /\ inv' = [kind |-> "update", path |-> "view", device |-> device,
                         dns |-> dns, pos |-> pos, before |-> switches[pos],
                         changes |-> upd.changes, raised |-> upd.raised]
    /\ UNCHANGED <<now, settings, calls, fanouts>>

NextUpdate == UpdateExistingDevice \/ ViewUpdate

SpecUpdate == InitUpdate /\ [][NextUpdate]_vars

(* SpecClient: the operations of the Control Client called on stored       *)
(* records, one at a time.  The instance ping works on may have been       *)
(* loaded before the row's disabled flag was changed.                      *)
InitClient ==
    /\ now = StartHour * 60
    /\ settings = DefaultSettings
    /\ \E dis \in [1..NumSwitches -> BOOLEAN] :
         switches = [i \in 1..NumSwitches |-> InitSwitch(i, dis[i])]
    /\ inv = NoInv
    /\ calls = <<>>
    /\ fanouts = [turn_on |-> 0, turn_off |-> 0]

ClientCall ==
    \E k \in 1..Len(switches), op \in ClientOperations, reply \in GetStateReplies :
       LET res == client_call(op, reply)
       IN  /\ calls' = [i \in 1..res.posts |->
                           [sw |-> switches[k].id, op |-> op, ok |-> res.raised = ""]]
           /\ inv' = [kind |-> "client", sw |-> switches[k].id, op |-> op,
                      reply |-> reply, raised |-> res.raised,
                      state |-> res.state, text |-> res.text]
           /\ UNCHANGED <<now, settings, switches, fanouts>>

Ping ==
    \E k \in 1..Len(switches), reply \in GetStateReplies, stale \in BOOLEAN :
       LET inst == IF stale THEN [switches[k] EXCEPT !.disabled = ~@] ELSE switches[k]
           res == ping(switches, inst, reply, now)
       IN  /\ switches' = res.table
           /\ calls' = [i \in 1..res.posts |->
                           [sw |-> inst.id, op |-> "get_state",
                            ok |-> get_state(reply).raised = ""]]
           /\ inv' = [kind |-> "ping", sw |-> inst.id, pos |-> k, reply |-> reply,
                      stale |-> stale, raised |-> res.raised, state |-> res.value,
                      before |-> switches]
           /\ UNCHANGED <<now, settings, fanouts>>

NextClient ==
    \/ inv = NoInv /\ ClientCall
    \/ inv = NoInv /\ Ping
    \/ Respond

SpecClient == InitClient /\ [][NextClient]_vars

(* SpecInventory: the operations that write device records, in any order:  *)
(* discovery from the command and from the web page, ping, toggle and      *)
(* refresh.                                                                *)
NextInventory ==
    \/ DiscoverWemo
    \/ WemoDiscover
    \/ inv = NoInv /\ Ping
    \/ inv = NoInv /\ WemoToggle
    \/ inv = NoInv /\ WemoRefreshStatus
    \/ Respond

SpecInventory == InitDisc /\ [][NextInventory]_vars

(* SpecOverlap: scheduler invocations that may overlap.  Command.handle    *)
(* loads the settings object first and decides, fans out and saves later   *)
(* on that object; nothing locks the row in between.  Each invocation p is *)
(* idle, then holds its loaded object, then is done.  The clock stands at  *)
(* an instant inside the sunset window.                                    *)
NumInvocations == 2

Invocations == 1..NumInvocations

Idle == [pc |-> "idle"]

(* handle from the loaded object s on: the decisions, the requests, and    *)
(* the object as last saved (settings.save() writes the object it holds).  *)
handle_loaded(s, dry_run, rOn, rOff, failOn, failOff) ==
    LET onDec == sunset_decision(s, now, rOn)
        onFire == onDec = "fire" /\ ~dry_run
        onCalls == IF onFire THEN turn_on_all_switches(switches, failOn) ELSE <<>>
        s1 == IF onFire
              THEN [s EXCEPT !.last_sunset_on = sunset_marker_after(s, now)]
              ELSE s
        offDec == night_decision(s1, now, rOff, onDec)
        offFire == offDec = "fire" /\ ~dry_run
        offCalls == IF offFire THEN turn_off_all_switches(switches, failOff) ELSE <<>>
        s2 == IF offFire
              THEN [s1 EXCEPT !.last_night_off = night_marker_after(s1, now)]
              ELSE s1
    IN  [sunset |-> onDec, night |-> offDec, onFire |-> onFire, offFire |-> offFire,
         calls |-> onCalls \o offCalls, saved |-> onFire \/ offFire, object |-> s2]

InitOverlap ==
    /\ now \in {sunset_time(0), sunset_time(0) + 25}
    /\ settings = DefaultSettings
    /\ \E dis \in [1..NumSwitches -> BOOLEAN] :
         switches = [i \in 1..NumSwitches |-> InitSwitch(i, dis[i])]
    /\ inv = [kind |-> "flights", flight |-> [p \in Invocations |-> Idle],
              overlapped |-> FALSE]
    /\ calls = <<>>
    /\ fanouts = [turn_on |-> 0, turn_off |-> 0]

(* settings = AwayModeSettings.get_settings()                              *)
LoadSettings(p) ==
    /\ inv.flight[p].pc = "idle"
    /\ inv' = [inv EXCEPT
                 !.flight[p] = [pc |-> "loaded", object |-> settings],
                 !.overlapped = @ \/ \E q \in Invocations : inv.flight[q].pc = "loaded"]
    /\ calls' = <<>>
    /\ UNCHANGED <<now, settings, switches, fanouts>>

(* The rest of handle on the loaded object.                                *)
DecideLoaded(p) ==
    /\ inv.flight[p].pc = "loaded"
    /\ LET s == inv.flight[p].object
       IN  \E dry_run \in BOOLEAN :
           \E rOn \in DrawsIf(/\ away_mode_enabled(s)
                              /\ sunset_due(s, now)
                              /\ sunset_in_window(s, now)) :
           \E rOff \in DrawsIf(/\ away_mode_enabled(s)
                               /\ night_due(s, now)
                               /\ night_in_window(s, now)) :
           \E failOn \in FailSetsIf(/\ away_mode_enabled(s)
                                    /\ ~dry_run
                                    /\ sunset_decision(s, now, rOn) = "fire",
                                    switches) :
           \E failOff \in FailSetsIf(/\ away_mode_enabled(s)
                                     /\ ~dry_run
                                     /\ night_decision(s, now, rOff,
                                            sunset_decision(s, now, rOn)) = "fire",
                                     switches) :
              LET res == handle_loaded(s, dry_run, rOn, rOff, failOn, failOff)
              IN  /\ away_mode_enabled(s)
                  /\ settings' = IF res.saved THEN res.object ELSE settings
                  /\ calls' = res.calls
                  /\ fanouts' = [turn_on |-> fanouts.turn_on
                                               + (IF res.onFire THEN 1 ELSE 0),
                                 turn_off |-> fanouts.turn_off
                                                + (IF res.offFire THEN 1 ELSE 0)]
                  /\ inv' = [inv EXCEPT
                               !.flight[p] = [pc |-> "done", dry_run |-> dry_run,
                                              preOn |-> s.last_sunset_on,
                                              sunset |-> res.sunset,
                                              night |-> res.night]]
    /\ UNCHANGED <<now, switches>>

NextOverlap ==
    \E p \in Invocations : LoadSettings(p) \/ DecideLoaded(p)

SpecOverlap == InitOverlap /\ [][NextOverlap]_vars

(* SpecRerun: the discovery command run twice in succession on the same    *)
(* batch of devices with the same reverse lookup, some time apart.         *)
RerunRecords ==
    { Stored(u, s, m, 2) : u \in {None, 1}, s \in {None, 1}, m \in {None, 1} }

RerunDevices ==
    [name : {1}, host : {None, 1}, port : {1},
     udn : {None, 1}, serial : {None, 1}, mac : {None, 1},
     firmware_version : {None}]

InitRerun ==
    /\ now = StartHour * 60
    /\ settings = DefaultSettings
    /\ switches \in Inventories(RerunRecords, MaxRecords)
    /\ inv = NoInv
    /\ calls = <<>>
    /\ fanouts = [turn_on |-> 0, turn_off |-> 0]

FirstRun ==
    /\ inv = NoInv
    /\ \E n \in 1..MaxBatch :
         \E devices \in [1..n -> RerunDevices], dry_run \in BOOLEAN, dns \in DnsChoices :
            discover_wemo(devices, dry_run, dns)

(* The first run is over; the same devices answer the next discovery.      *)
Later ==
    /\ inv.kind = "discover"
    /\ now = StartHour * 60
    /\ now' = now + TickMinutes
    /\ inv' = [kind |-> "rerun", first |-> inv]
    /\ UNCHANGED <<settings, switches, calls, fanouts>>

SecondRun ==
    /\ inv.kind = "rerun"
    /\ discover_wemo(inv.first.devices, inv.first.dry_run, inv.first.dns)

NextRerun == FirstRun \/ Later \/ SecondRun

SpecRerun == InitRerun /\ [][NextRerun]_vars

(* SpecInstant: the scheduler with windows of half-width 0 or 30 around    *)
(* the sunset and around an off time at the sunset or at 22:30.            *)
InstantOffConfigs ==
    [h : {SunsetHour, 22}, m : {0, 30}, w : {0, 30}]

InitInstant ==
    /\ now = StartHour * 60
    /\ \E w \in SunsetWindows, off \in InstantOffConfigs :
         settings = [enabled |-> TRUE,
                     sunset_window_minutes |-> w,
                     off_time_hour |-> off.h,
                     off_time_minute |-> off.m,
                     off_window_minutes |-> off.w,
                     last_sunset_on |-> NoDate,
                     last_night_off |-> NoDate]
    /\ switches = [i \in 1..NumSwitches |-> InitSwitch(i, FALSE)]
    /\ inv = NoInv
    /\ calls = <<>>
    /\ fanouts = [turn_on |-> 0, turn_off |-> 0]

NextInstant == Tick \/ RunAwayMode

SpecInstant == InitInstant /\ [][NextInstant]_vars

(* SpecPeriodic: the scheduler run by a timer.  An invocation outside      *)
(* dry-run happens at every instant the timer wakes up, from 17:00 on, and *)
(* the timer then sleeps for a number of ticks that is strictly less than  *)
(* 20% of the length of either window.  The off time is 22:30 +/- 30 (the  *)
(* window inside the day), 23:55 +/- 20 (the window ends after midnight)   *)
(* or 00:05 +/- 20 (the window starts before midnight).  Fairness: the     *)
(* timer keeps running.                                                    *)
MaxGapTicks == 2

PeriodicSunsetWindow == 30

PeriodicOffConfigs ==
    {[h |-> 22, m |-> 30, w |-> 30],
     [h |-> 23, m |-> 55, w |-> 20],
     [h |-> 0, m |-> 5, w |-> 20]}

InitPeriodic ==
    /\ now = StartHour * 60
    /\ \E off \in PeriodicOffConfigs :
         settings = [enabled |-> TRUE,
                     sunset_window_minutes |-> PeriodicSunsetWindow,
                     off_time_hour |-> off.h,
                     off_time_minute |-> off.m,
                     off_window_minutes |-> off.w,
                     last_sunset_on |-> NoDate,
                     last_night_off |-> NoDate]
    /\ \E dis \in [1..NumSwitches -> BOOLEAN] :
         switches = [i \in 1..NumSwitches |-> InitSwitch(i, dis[i])]
    /\ inv = NoInv
    /\ calls = <<>>
    /\ fanouts = [turn_on |-> 0, turn_off |-> 0]

TimerRun ==
    /\ inv = NoInv
    /\ RunAwayMode
    /\ ~inv'.dry_run

TimerSleep ==
    /\ inv # NoInv
    /\ \E k \in 1..MaxGapTicks :
          /\ 5 * (k * TickMinutes) < 2 * settings.sunset_window_minutes
          /\ 5 * (k * TickMinutes) < 2 * settings.off_window_minutes
          /\ now + k * TickMinutes <= (StartHour + HorizonHours) * 60
          /\ now' = now + k * TickMinutes
    /\ fanouts' = IF Date(now') = Date(now) THEN fanouts
                  ELSE [turn_on |-> 0, turn_off |-> 0]
    /\ inv' = NoInv
    /\ calls' = <<>>
    /\ UNCHANGED <<settings, switches>>

NextPeriodic == TimerRun \/ TimerSleep

SpecPeriodic == InitPeriodic /\ [][NextPeriodic]_vars /\ WF_vars(NextPeriodic)

----------------------------------------------------------------------------
(* Vocabulary of the scheduler properties.  The windows are recomputed     *)
(* here from the settings and the sunset time, as the specification        *)
(* states them.                                                            *)

Today == Date(now)

TurnOnCalls == SelectSeq(calls, LAMBDA c : c.op = "turn_on")

TurnOffCalls == SelectSeq(calls, LAMBDA c : c.op = "turn_off")

Ran == inv.kind = "run"

SunsetStart == sunset_time(Today) - settings.sunset_window_minutes

SunsetEnd == sunset_time(Today) + settings.sunset_window_minutes

OffTarget == Today * DayMinutes + settings.off_time_hour * 60 + settings.off_time_minute

NightStart == OffTarget - settings.off_window_minutes

NightEnd == OffTarget + settings.off_window_minutes

(* random_draw < elapsed / window_length or elapsed > 80% of the length,   *)
(* with the draw r / RandDen and without the division.                     *)
FireRule(r, elapsed, length) ==
    \/ r * length < elapsed * RandDen
    \/ 5 * elapsed > 4 * length

(* Each enabled record got exactly one request op in the last step, and    *)
(* nothing else got one.                                                   *)
NotDisabledIds == {switches[k].id : k \in {j \in 1..Len(switches) : ~switches[j].disabled}}

DisabledIds == {switches[k].id : k \in {j \in 1..Len(switches) : switches[j].disabled}}

ContactedOnce(reqs) ==
    /\ Len(reqs) = Cardinality(NotDisabledIds)
    /\ \A id \in NotDisabledIds :
          Cardinality({i \in 1..Len(reqs) : reqs[i].sw = id}) = 1

----------------------------------------------------------------------------
(* C1: each action fans out at most once per calendar day.  No date sees   *)
(* two turn_on fan-outs or two turn_off fan-outs, and an invocation that   *)
(* finds last_sunset_on (resp. last_night_off) equal to today skips the    *)
(* sunset-on (resp. night-off) check, sends no turn_on (resp. turn_off)    *)
(* request and leaves that marker as it was, also inside the window.       *)
C1_AtMostOncePerDay ==
    /\ fanouts.turn_on <= 1
    /\ fanouts.turn_off <= 1
    /\ (Ran /\ inv.preOn = Today) =>
          /\ inv.sunset = "skipped"
          /\ TurnOnCalls = <<>>
          /\ settings.last_sunset_on = inv.preOn
    /\ (Ran /\ inv.preOff = Today) =>
          /\ inv.night \in {"skipped", "notrun"}
          /\ TurnOffCalls = <<>>
          /\ settings.last_night_off = inv.preOff

(* A second invocation on the day of the fan-out, still inside the sunset  *)
(* window, outside dry-run.                                                *)
C1_Witness ==
    /\ Ran /\ ~inv.dry_run
    /\ inv.preOn = Today
    /\ fanouts.turn_on = 1
    /\ SunsetStart <= now /\ now < SunsetEnd
    /\ NotDisabledIds # {}

(* C2: inside a window with the marker not today, the decision is "fire"   *)
(* exactly when draw < elapsed / length or elapsed > 80% of the length,    *)
(* and outside dry-run the fan-out and the marker follow the decision.     *)
C2_FireRule ==
    /\ (Ran /\ inv.preOn # Today /\ SunsetStart <= now /\ now <= SunsetEnd) =>
          /\ inv.sunset = "fire"
               <=> FireRule(inv.rOn, now - SunsetStart, SunsetEnd - SunsetStart)
          /\ ~inv.dry_run =>
               /\ inv.sunset = "fire" <=> settings.last_sunset_on = Today
               /\ inv.sunset = "fire" <=> fanouts.turn_on = 1
    /\ (Ran /\ inv.night # "notrun" /\ inv.preOff # Today
            /\ NightStart <= now /\ now <= NightEnd) =>
          /\ inv.night = "fire"
               <=> FireRule(inv.rOff, now - NightStart, NightEnd - NightStart)
          /\ ~inv.dry_run =>
               /\ inv.night = "fire" <=> settings.last_night_off = Today
               /\ inv.night = "fire" <=> fanouts.turn_off = 1

(* A fire past 80% of the sunset window on a draw that alone would wait.   *)
C2_Witness ==
    /\ Ran /\ ~inv.dry_run
    /\ inv.sunset = "fire"
    /\ inv.rOn * (SunsetEnd - SunsetStart) >= (now - SunsetStart) * RandDen
    /\ TurnOnCalls # <<>>

(* C3 as stated: window 30, sunset 18:00, now 18:35, enabled, marker not   *)
(* today: turn_on goes to every enabled device and the marker is today.    *)
C3_Original ==
    (/\ Ran /\ ~inv.dry_run
     /\ settings.sunset_window_minutes = 30
     /\ sunset_time(Today) = Today * DayMinutes + 18 * 60
     /\ now = Today * DayMinutes + 18 * 60 + 35
     /\ inv.preOn # Today) =>
        /\ ContactedOnce(TurnOnCalls)
        /\ settings.last_sunset_on = Today

(* C3 amended: at 18:30, the end of the window (100% elapsed), outside     *)
(* dry-run, the on-action fires whatever the draw; at 18:35 the window is  *)
(* missed and nothing fires.                                               *)
C3_FiresAtWindowEnd ==
    /\ (/\ Ran /\ ~inv.dry_run
        /\ settings.sunset_window_minutes = 30
        /\ sunset_time(Today) = Today * DayMinutes + 18 * 60
        /\ now = Today * DayMinutes + 18 * 60 + 30
        /\ inv.preOn # Today) =>
           /\ inv.sunset = "fire"
           /\ ContactedOnce(TurnOnCalls)
           /\ settings.last_sunset_on = Today
    /\ (/\ Ran
        /\ settings.sunset_window_minutes = 30
        /\ sunset_time(Today) = Today * DayMinutes + 18 * 60
        /\ now = Today * DayMinutes + 18 * 60 + 35
        /\ inv.preOn # Today) =>
           /\ inv.sunset = "missed"
           /\ TurnOnCalls = <<>>
           /\ settings.last_sunset_on = inv.preOn

(* The fire at 18:30 on the largest draw, with devices to contact.         *)
C3_Witness ==
    /\ Ran /\ ~inv.dry_run
    /\ settings.sunset_window_minutes = 30
    /\ now = Today * DayMinutes + 18 * 60 + 30
    /\ inv.preOn # Today
    /\ inv.rOn = RandDen - 1
    /\ settings.last_sunset_on = Today
    /\ Len(TurnOnCalls) = NumSwitches

(* C4: when a fan-out runs, whichever requests fail, every enabled device  *)
(* gets exactly one request, the failures are the failing devices' own,    *)
(* the invocation goes on (no exception leaves the fan-out) and the        *)
(* marker is set to today.                                                 *)
C4_FanOutIsolatesFailures ==
    /\ (Ran /\ ~inv.dry_run /\ inv.sunset = "fire") =>
          /\ ContactedOnce(TurnOnCalls)
          /\ \A i \in 1..Len(TurnOnCalls) :
                TurnOnCalls[i].ok <=> TurnOnCalls[i].sw \notin inv.failOn
          /\ settings.last_sunset_on = Today
          /\ inv.night # "notrun"
    /\ (Ran /\ ~inv.dry_run /\ inv.night = "fire") =>
          /\ ContactedOnce(TurnOffCalls)
          /\ \A i \in 1..Len(TurnOffCalls) :
                TurnOffCalls[i].ok <=> TurnOffCalls[i].sw \notin inv.failOff
          /\ settings.last_night_off = Today

(* A turn_on fan-out over several devices whose first request fails.       *)
C4_Witness ==
    /\ Ran /\ ~inv.dry_run /\ inv.sunset = "fire"
    /\ Len(TurnOnCalls) >= 2
    /\ ~TurnOnCalls[1].ok
    /\ TurnOnCalls[2].ok
    /\ settings.last_sunset_on = Today

C6_MissedNow ==
    /\ (Ran /\ inv.preOn # Today /\ now > SunsetEnd) =>
          /\ inv.sunset = "missed"
          /\ TurnOnCalls = <<>>
          /\ settings.last_sunset_on = inv.preOn
    /\ (Ran /\ inv.preOff # Today /\ now > NightEnd) =>
          /\ inv.night \in {"missed", "notrun"}
          /\ TurnOffCalls = <<>>
          /\ settings.last_night_off = inv.preOff

C6_MissedStep ==
    /\ (settings.last_sunset_on # Today /\ now > SunsetEnd /\ Date(now') = Today) =>
          /\ settings'.last_sunset_on = settings.last_sunset_on
          /\ now' > SunsetEnd
          /\ fanouts'.turn_on = fanouts.turn_on
    /\ (settings.last_night_off # Today /\ now > NightEnd /\ Date(now') = Today) =>
          /\ settings'.last_night_off = settings.last_night_off
          /\ now' > NightEnd
          /\ fanouts'.turn_off = fanouts.turn_off

C6_MissedStaysMissed == [](C6_MissedNow) /\ [][C6_MissedStep]_vars

(* A second invocation outside dry-run after the end of a sunset window    *)
(* that no fan-out honoured.                                               *)
C6_Witness ==
    /\ Ran /\ ~inv.dry_run
    /\ inv.sunset = "missed"
    /\ now > SunsetEnd + TickMinutes
    /\ fanouts.turn_on = 0
    /\ settings.sunset_window_minutes > 0
    /\ NotDisabledIds # {}

(* C7: with settings.enabled false an invocation returns at once: no       *)
(* decision is taken, no request is sent and both markers stay.            *)
C7_DisabledDoesNothing ==
    (inv.kind # "none" /\ ~settings.enabled) =>
        /\ inv.kind = "disabled"
        /\ calls = <<>>
        /\ settings.last_sunset_on = inv.preOn
        /\ settings.last_night_off = inv.preOff

(* A disabled invocation inside both windows with both markers not today.  *)
C7_Witness ==
    /\ inv.kind = "disabled"
    /\ SunsetStart < now /\ now <= SunsetEnd
    /\ NightStart < now /\ now <= NightEnd
    /\ settings.last_sunset_on # Today
    /\ settings.last_night_off # Today
    /\ NotDisabledIds # {}

(* C8: no operation sends a request to a record with disabled = True.      *)
(* Every request of the last step went to a record that is not disabled;   *)
(* a fan-out and the status page reach exactly the records that are not    *)
(* disabled; toggle and refresh on a disabled record send nothing and      *)
(* answer with an error.                                                   *)
C8_DisabledNeverContacted ==
    /\ \A i \in 1..Len(calls) : calls[i].sw \in NotDisabledIds
    /\ (Ran /\ ~inv.dry_run /\ inv.sunset = "fire") =>
          {TurnOnCalls[i].sw : i \in 1..Len(TurnOnCalls)} = NotDisabledIds
    /\ (Ran /\ ~inv.dry_run /\ inv.night = "fire") =>
          {TurnOffCalls[i].sw : i \in 1..Len(TurnOffCalls)} = NotDisabledIds
    /\ inv.kind = "main" =>
          /\ {calls[i].sw : i \in 1..Len(calls)} = NotDisabledIds
          /\ inv.total = Cardinality(NotDisabledIds)
    /\ (inv.kind \in {"toggle", "refresh"} /\ inv.sw \in DisabledIds) =>
          /\ calls = <<>>
          /\ ~inv.success

(* A turn_on fan-out that reached a device while another is disabled.      *)
C8_Witness ==
    /\ Ran /\ ~inv.dry_run /\ inv.sunset = "fire"
    /\ TurnOnCalls # <<>>
    /\ DisabledIds # {}

(* Vocabulary of the discovery properties.                                 *)
Matched == inv.kind = "match"

HasUdn(table, d) == d.udn # None /\ \E sw \in Range(table) : sw.udn = d.udn

HasSerial(table, d) ==
    d.serial # None /\ \E sw \in Range(table) : sw.serial_number = d.serial

HasMac(table, d) ==
    d.mac # None /\ \E sw \in Range(table) : sw.mac_address = d.mac

HasIpName(table, d) ==
    /\ d.host # None
    /\ d.name # None
    /\ \E sw \in Range(table) : sw.ip_address = d.host /\ sw.name = d.name

MatchLevel(table, d) ==
    IF HasUdn(table, d) THEN "UDN"
    ELSE IF HasSerial(table, d) THEN "Serial Number"
    ELSE IF HasMac(table, d) THEN "MAC Address"
    ELSE IF HasIpName(table, d) THEN "IP + Name"
    ELSE ""

(* C9: the matcher of the discovery command tries udn, serial number, mac  *)
(* address and (ip address, name) in this order and the first level with a *)
(* matching record wins: the reported level is the first one whose         *)
(* identifier is non-empty and carried by a record, the returned record    *)
(* carries that identifier, whatever the lower levels match, and a device  *)
(* that matches at no level is reported as not existing.                   *)
C9_MatchCascade ==
    Matched =>
        LET d == inv.device
            r == inv.result
        IN  /\ r.match_type = MatchLevel(switches, d)
            /\ r.exists <=> MatchLevel(switches, d) # ""
            /\ r.exists <=> r.pos \in 1..Len(switches)
            /\ r.match_type = "UDN" => switches[r.pos].udn = d.udn
            /\ r.match_type = "Serial Number" =>
                  switches[r.pos].serial_number = d.serial
            /\ r.match_type = "MAC Address" =>
                  switches[r.pos].mac_address = d.mac
            /\ r.match_type = "IP + Name" =>
                  /\ switches[r.pos].ip_address = d.host
                  /\ switches[r.pos].name = d.name

(* A device matched by UDN to a record whose serial number, mac address    *)
(* and ip address all differ from the device's, while another record       *)
(* carries the device's serial number.                                     *)
C9_Witness ==
    /\ Matched
    /\ inv.result.match_type = "UDN"
    /\ switches[inv.result.pos].serial_number # inv.device.serial
    /\ switches[inv.result.pos].mac_address # inv.device.mac
    /\ switches[inv.result.pos].ip_address # inv.device.host
    /\ \E k \in 1..Len(switches) :
          /\ k # inv.result.pos
          /\ switches[k].serial_number = inv.device.serial

(* A batch in which nothing but a missing identifier can go wrong: every   *)
(* device has a host and a name and no two devices share a udn or a serial *)
(* number.                                                                 *)
CleanBatch(devices) ==
    /\ \A i \in 1..Len(devices) : devices[i].host # None /\ devices[i].name # None
    /\ \A i, j \in 1..Len(devices) :
          i < j => /\ devices[i].udn = None \/ devices[i].udn # devices[j].udn
                   /\ devices[i].serial = None \/ devices[i].serial # devices[j].serial

Unmatched(d) == ~device_exists(inv.before, d).exists

Unidentified(d) == d.udn = None /\ d.serial = None

CreatedFor(d) ==
    \E sw \in Range(switches) :
       /\ sw.id \notin {old.id : old \in Range(inv.before)}
       /\ sw.udn = d.udn
       /\ sw.serial_number = d.serial
       /\ sw.ip_address = d.host

(* C10: in a run of the discovery command that stores its results, a       *)
(* device that matches no record is new; if it has neither udn nor serial  *)
(* its creation is skipped, no exception leaves the run, and every other   *)
(* new device of the batch is created.                                     *)
C10_Original ==
    (inv.kind = "discover" /\ ~inv.dry_run /\ CleanBatch(inv.devices)) =>
        /\ inv.raised = ""
        /\ Len(inv.outcomes) = Len(inv.devices)
        /\ \A i \in 1..Len(inv.devices) :
              LET d == inv.devices[i]
              IN  Unmatched(d) =>
                     IF Unidentified(d)
                     THEN inv.outcomes[i] = "skipped" /\ ~CreatedFor(d)
                     ELSE CreatedFor(d)

(* The outcome the caller reports for the device at position i of the     *)
(* last discovery run: created, updated, unchanged or skipped.             *)
Discovered == inv.kind \in {"discover", "web_discover"}

Outcome(i) ==
    IF i > Len(inv.outcomes) THEN "none"
    ELSE CASE inv.outcomes[i] \in {"updated", "unchanged", "skipped"} -> inv.outcomes[i]
           [] inv.outcomes[i] = "error" -> "skipped"
           [] inv.outcomes[i] = "added" -> "created"
           [] inv.outcomes[i] = "new" ->
                IF inv.dry_run THEN "skipped"
                ELSE IF inv.raised = "" THEN "created" ELSE "none"

(* A device that cannot fail by itself: it has a host, a name and a udn or *)
(* a serial number.                                                        *)
Sound(d) == d.host # None /\ d.name # None /\ (d.udn # None \/ d.serial # None)

(* C11: a discovery run that stores its results, from the command or from  *)
(* the web page, is never aborted by the failure of one device: every      *)
(* device of the batch that is sound by itself gets one outcome among      *)
(* created, updated, unchanged and skipped, whatever the other devices of  *)
(* the batch cause.                                                        *)
C11_Original ==
    (Discovered /\ ~inv.dry_run) =>
        \A i \in 1..Len(inv.devices) :
           Sound(inv.devices[i]) =>
              Outcome(i) \in {"created", "updated", "unchanged", "skipped"}

(* Vocabulary of the update properties: the value discovered for each     *)
(* diffed field of the last reconciled device.                             *)
Updated == inv.kind = "update"

ResolvedHostname ==
    IF inv.device.host # None THEN inv.dns[inv.device.host] ELSE None

DiscoveredFields ==
    [ip_address |-> inv.device.host, port |-> inv.device.port,
     hostname |-> ResolvedHostname, mac_address |-> inv.device.mac,
     firmware_version |-> inv.device.firmware_version, name |-> inv.device.name]

DiffedFields ==
    {"ip_address", "port", "hostname", "mac_address", "firmware_version", "name"}

C13_Original ==
    (Updated /\ inv.raised = "") =>
        \A f \in DiffedFields :
           switches[inv.pos][f] # inv.before[f] =>
              /\ DiscoveredFields[f] # None
              /\ DiscoveredFields[f] # inv.before[f]
              /\ switches[inv.pos][f] = DiscoveredFields[f]

(* C14: every stored record has a udn or a serial number, whatever         *)
(* creations, reconciliation updates, polls and toggles came before; a     *)
(* run of the command in which save() refused a record without both has    *)
(* stored no new record.                                                   *)
C14_IdentifierInvariant ==
    /\ \A sw \in Range(switches) : sw.udn # None \/ sw.serial_number # None
    /\ (inv.kind = "discover" /\ inv.cause = "ValueError") =>
          {sw.id : sw \in Range(switches)} = {sw.id : sw \in Range(inv.before)}

(* save() refused a record without identifiers in a run over an inventory  *)
(* that an earlier operation has written to.                               *)
C14_Witness ==
    /\ Discovered
    /\ inv.cause = "ValueError"
    /\ \E d \in Range(inv.devices) : Unidentified(d) /\ d.host # None
    /\ \E sw \in Range(switches) : sw.last_seen = now

(* The stored record with the given id.                                   *)
RecordOf(id) == switches[CHOOSE k \in 1..Len(switches) : switches[k].id = id]

(* C15: last_seen of a record is the current time after every successful   *)
(* reconciliation match of the record, changed or not, and after every     *)
(* successful request to its device: turn_on and turn_off of the           *)
(* scheduler's fan-out, toggle, refresh and ping.                          *)
C15_Original ==
    /\ (Updated /\ inv.raised = "") => switches[inv.pos].last_seen = now
    /\ (Ran /\ ~inv.dry_run) =>
          \A i \in 1..Len(calls) :
             calls[i].ok => RecordOf(calls[i].sw).last_seen = now
    /\ (inv.kind \in {"toggle", "refresh"} /\ inv.success) =>
          RecordOf(inv.sw).last_seen = now
    /\ (inv.kind = "ping" /\ inv.state # NoState) =>
          RecordOf(inv.sw).last_seen = now

(* Vocabulary of the Control Client properties.                            *)
Called(op) == inv.kind = "client" /\ inv.op = op

Pinged == inv.kind = "ping"

(* C16: get_state returns the integer of the BinaryState element as it is: *)
(* 0 as 0, 1 as 1, and another code such as 8 as 8.                        *)
C16_StatePassedThrough ==
    Called("get_state") =>
        /\ inv.reply = "0" => inv.raised = "" /\ inv.state = 0
        /\ inv.reply = "1" => inv.raised = "" /\ inv.state = 1
        /\ inv.reply = "8" => inv.raised = "" /\ inv.state = 8

(* get_state on a device that answers 8.                                   *)
C16_Witness == Called("get_state") /\ inv.reply = "8" /\ inv.state = 8

(* C17: a timeout, a refused connection or an error status makes every     *)
(* operation of the client raise a connectivity error after one request,   *)
(* with nothing returned; ping alone returns None instead, also after one  *)
(* request.                                                                *)
C17_ConnectivityFailureRaises ==
    /\ (inv.kind = "client" /\ inv.reply \in ConnectivityFailures) =>
          /\ inv.raised \in ConnectivityErrors
          /\ inv.state = NoState
          /\ inv.text = ""
          /\ Len(calls) = 1
    /\ (Pinged /\ inv.reply \in ConnectivityFailures) =>
          /\ inv.raised = ""
          /\ inv.state = NoState
          /\ Len(calls) = 1

(* get_state on a device that does not answer in time.                     *)
C17_Witness ==
    /\ Called("get_state")
    /\ inv.reply = "timeout"
    /\ inv.raised = "Timeout"
    /\ calls # <<>>

(* C18: a response with a success status whose body is not parseable or    *)
(* lacks the element the operation reads makes get_state and               *)
(* get_firmware_version raise an error that is not a connectivity error;   *)
(* no value is returned.                                                   *)
C18_Original ==
    (/\ inv.kind = "client"
     /\ inv.op \in {"get_state", "get_firmware_version"}
     /\ inv.reply \in {"bad_xml", "no_element"}) =>
        /\ inv.raised # ""
        /\ inv.raised \notin ConnectivityErrors

(* C19: ping never raises.  When get_state returns, the row's last_seen is *)
(* the current time, every other field of the row and every other row is   *)
(* as stored before, and the state is returned; when get_state raises,     *)
(* None is returned and the table is as before.                            *)
C19_PingContract ==
    Pinged =>
        /\ inv.raised = ""
        /\ get_state(inv.reply).raised = "" =>
              /\ inv.state = get_state(inv.reply).value
              /\ switches = [inv.before EXCEPT ![inv.pos].last_seen = now]
        /\ get_state(inv.reply).raised # "" =>
              /\ inv.state = NoState
              /\ switches = inv.before

(* A successful ping through an instance loaded before the row's disabled  *)
(* flag changed, on a row not seen at the current time before.             *)
C19_Witness ==
    /\ Pinged
    /\ inv.stale
    /\ inv.state = 1
    /\ inv.before[inv.pos].last_seen # now
    /\ switches[inv.pos].last_seen = now

(* The decision of the sunset procedure for a window of the given length  *)
(* that began elapsed minutes ago, on the draw r: check_sunset_on on day 0 *)
(* with a half-width of length / 2.  Only the sign of elapsed and whether  *)
(* it exceeds the length matter outside the window, so elapsed is clamped  *)
(* to keep the instant on day 0.                                           *)
SunsetProcedure(elapsed, length, r) ==
    LET e == IF elapsed < 0 THEN 0 - 1
             ELSE IF elapsed > length THEN length + 1 ELSE elapsed
        half == length \div 2
    IN  check_sunset_on([settings EXCEPT !.sunset_window_minutes = half],
                        sunset_time(0) - half + e, r)

(* C20: the night-off decision is the decision the sunset procedure makes  *)
(* for the same elapsed time, window length, draw and marker state, on the *)
(* window [off_time - off_window_minutes, off_time + off_window_minutes]   *)
(* of today; a night-off fire sends turn_off, never turn_on, to each       *)
(* enabled device and sets last_night_off, never last_sunset_on, to today. *)
C20_NightOffSameProcedure ==
    (Ran /\ inv.night # "notrun") =>
        /\ inv.night = "skipped" <=> inv.preOff = Today
        /\ inv.sunset = "skipped" <=> inv.preOn = Today
        /\ inv.preOff # Today =>
              inv.night = SunsetProcedure(now - NightStart, NightEnd - NightStart,
                                          inv.rOff)
        /\ inv.preOn # Today =>
              inv.sunset = SunsetProcedure(now - SunsetStart, SunsetEnd - SunsetStart,
                                           inv.rOn)
        /\ (inv.night = "fire" /\ ~inv.dry_run) =>
              /\ ContactedOnce(TurnOffCalls)
              /\ TurnOnCalls # <<>> => inv.sunset = "fire"
              /\ settings.last_night_off = Today
              /\ settings.last_sunset_on =
                    IF inv.sunset = "fire" THEN Today ELSE inv.preOn

(* A night-off fire past 80% of its window on a draw that alone would      *)
(* wait, with no sunset-on fire in the same invocation.                    *)
C20_Witness ==
    /\ Ran /\ ~inv.dry_run
    /\ inv.night = "fire"
    /\ inv.sunset # "fire"
    /\ inv.rOff * (NightEnd - NightStart) >= (now - NightStart) * RandDen
    /\ TurnOffCalls # <<>>
    /\ TurnOnCalls = <<>>

(* The outcome of a window decision told from the invocation alone: the    *)
(* marker before it, the window, the clock and the draw.                   *)
WindowOutcome(marker, start, end, r) ==
    IF marker = Today THEN "skipped"
    ELSE IF now < start THEN "early"
    ELSE IF now > end THEN "missed"
    ELSE IF end = start THEN "error"
    ELSE IF FireRule(r, now - start, end - start) THEN "fire"
    ELSE "wait"

(* C21: the two decisions of one invocation are independent.  Whatever the *)
(* sunset-on decision was (skipped, early, wait, fire or missed), the      *)
(* night-off outcome is the one its own marker, window and draw give; and  *)
(* when both decide to fire outside dry-run, the invocation sends turn_on  *)
(* to every enabled device, then turn_off to every enabled device, and     *)
(* sets both markers to today.                                             *)
C21_DecisionsIndependent ==
    (Ran /\ inv.sunset # "error") =>
        /\ inv.sunset = WindowOutcome(inv.preOn, SunsetStart, SunsetEnd, inv.rOn)
        /\ inv.night = WindowOutcome(inv.preOff, NightStart, NightEnd, inv.rOff)
        /\ (/\ ~inv.dry_run
            /\ WindowOutcome(inv.preOn, SunsetStart, SunsetEnd, inv.rOn) = "fire"
            /\ WindowOutcome(inv.preOff, NightStart, NightEnd, inv.rOff) = "fire") =>
              /\ ContactedOnce(TurnOnCalls)
              /\ ContactedOnce(TurnOffCalls)
              /\ calls = TurnOnCalls \o TurnOffCalls
              /\ settings.last_sunset_on = Today
              /\ settings.last_night_off = Today

(* One invocation inside both windows that fired both actions.             *)
C21_Witness ==
    /\ Ran /\ ~inv.dry_run
    /\ inv.sunset = "fire"
    /\ inv.night = "fire"
    /\ inv.preOn # Today /\ inv.preOff # Today
    /\ TurnOnCalls # <<>>
    /\ TurnOffCalls # <<>>

(* C22: forced floor as the glossary states it.  At an invocation inside   *)
(* the window with the marker not today at which at least 80% of the       *)
(* window has elapsed, exactly 80% included, the decision is "fire"        *)
(* whatever the draw.                                                      *)
C22_Original ==
    /\ (/\ Ran /\ inv.preOn # Today
        /\ SunsetStart < SunsetEnd
        /\ SunsetStart <= now /\ now <= SunsetEnd
        /\ 5 * (now - SunsetStart) >= 4 * (SunsetEnd - SunsetStart)) =>
          inv.sunset = "fire"
    /\ (/\ Ran /\ inv.night # "notrun" /\ inv.preOff # Today
        /\ NightStart < NightEnd
        /\ NightStart <= now /\ now <= NightEnd
        /\ 5 * (now - NightStart) >= 4 * (NightEnd - NightStart)) =>
          inv.night = "fire"

(* The ids of the records stored by the last discovery run.                *)
NewIds == {sw.id : sw \in Range(switches)} \ {sw.id : sw \in Range(inv.before)}

(* C23: the new records of one run of the discovery command are stored     *)
(* together.  Either the run ends without error and every queued record is *)
(* stored, or it ends with an error reported and none of them is.          *)
C23_NewRecordsTogether ==
    (inv.kind = "discover" /\ ~inv.dry_run) =>
        \/ /\ inv.raised = ""
           /\ Cardinality(NewIds) = Len(inv.new_devices)
           /\ \A i \in 1..Len(inv.new_devices) :
                 \E sw \in Range(switches) :
                    /\ sw.id \in NewIds
                    /\ sw.udn = inv.new_devices[i].udn
                    /\ sw.serial_number = inv.new_devices[i].serial_number
        \/ /\ inv.raised # ""
           /\ NewIds = {}

(* A run whose second new record failed to save after the first one had    *)
(* been saved inside the transaction.                                      *)
C23_Witness ==
    /\ inv.kind = "discover" /\ ~inv.dry_run
    /\ inv.raised = "CommandError"
    /\ Len(inv.new_devices) >= 2
    /\ save(inv.before, inv.new_devices[1], now).raised = ""
    /\ NewIds = {}

(* C24: a run of the discovery command with --dry-run leaves the inventory *)
(* as it was: no record created, no field of a stored record changed.      *)
C24_Original ==
    (inv.kind = "discover" /\ inv.dry_run) => switches = inv.before

(* C25: the sunset marker keeps turn_on to one fan-out a day only while    *)
(* invocations do not overlap.  Two fan-outs on one day happen only when   *)
(* an invocation loaded the settings while another one held its loaded     *)
(* object, and an invocation that fired had loaded a marker that was not   *)
(* today.                                                                  *)
C25_DoubleFireNeedsOverlap ==
    inv.kind = "flights" =>
        /\ fanouts.turn_on > 1 => inv.overlapped
        /\ \A p \in Invocations :
              (inv.flight[p].pc = "done" /\ inv.flight[p].sunset = "fire") =>
                 inv.flight[p].preOn # Today

(* Two overlapping invocations that both fired the turn_on fan-out on the  *)
(* same day: both had loaded the marker before either saved it.            *)
C25_Witness ==
    /\ inv.kind = "flights"
    /\ fanouts.turn_on = 2
    /\ settings.last_sunset_on = Today
    /\ \E p, q \in Invocations :
          /\ p # q
          /\ inv.flight[p].pc = "done" /\ inv.flight[q].pc = "done"
          /\ ~inv.flight[p].dry_run /\ ~inv.flight[q].dry_run
          /\ inv.flight[p].sunset = "fire" /\ inv.flight[q].sunset = "fire"
          /\ inv.flight[p].preOn # Today /\ inv.flight[q].preOn # Today

(* The record the cascade udn > serial number > mac address > (ip, name)   *)
(* selects for a device: the first record, in table order, at the first    *)
(* level that has one; 0 for a new device.                                 *)
CascadePos(table, d) ==
    LET level == MatchLevel(table, d)
        hits == {k \in 1..Len(table) :
                    CASE level = "UDN" -> table[k].udn = d.udn
                      [] level = "Serial Number" -> table[k].serial_number = d.serial
                      [] level = "MAC Address" -> table[k].mac_address = d.mac
                      [] level = "IP + Name" -> /\ table[k].ip_address = d.host
                                                /\ table[k].name = d.name
                      [] OTHER -> FALSE}
    IN  IF hits = {} THEN 0 ELSE CHOOSE k \in hits : \A j \in hits : k <= j

(* C26: the web page resolves a device like the command: it selects the    *)
(* record the cascade selects, or reports the device as new when the       *)
(* cascade finds none; a device whose udn matches nothing and whose serial *)
(* number matches a record is matched to that record.                      *)
C26_Original ==
    /\ inv.kind = "view_match" => inv.pos = CascadePos(switches, inv.device)
    /\ Matched => inv.result.pos = CascadePos(switches, inv.device)

(* C27: under periodic invocation outside dry-run, from before the window *)
(* opens until after it closes and with every gap shorter than 20% of the  *)
(* window length, each action fires exactly once that day, at an           *)
(* invocation inside its window, whatever the draws: no invocation finds   *)
(* the window missed, no second fan-out happens, and the marker of each    *)
(* action eventually is the day.  (The night window counts when it lies    *)
(* inside the day.)                                                        *)
NightWithinDay ==
    /\ Today * DayMinutes <= NightStart
    /\ NightEnd < (Today + 1) * DayMinutes

C27_Safe ==
    /\ fanouts.turn_on <= 1
    /\ fanouts.turn_off <= 1
    /\ Ran => /\ inv.sunset # "missed"
              /\ NightWithinDay => inv.night # "missed"
              /\ inv.sunset = "fire" =>
                    /\ SunsetStart <= now /\ now <= SunsetEnd
                    /\ fanouts.turn_on = 1
              /\ inv.night = "fire" =>
                    /\ NightStart <= now /\ now <= NightEnd
                    /\ fanouts.turn_off = 1

C27_FiresOnceUnderPeriodicInvocation ==
    /\ [](C27_Safe)
    /\ <>(settings.last_sunset_on = Date(StartHour * 60))
    /\ NightWithinDay => <>(settings.last_night_off = Date(StartHour * 60))

(* A fire forced by the floor: the draw alone would have waited, and the   *)
(* last invocations before it waited.                                      *)
C27_Witness ==
    /\ Ran
    /\ NightWithinDay
    /\ inv.night = "fire"
    /\ inv.rOff * (NightEnd - NightStart) >= (now - NightStart) * RandDen
    /\ settings.last_sunset_on = Today
    /\ fanouts.turn_on = 1
    /\ fanouts.turn_off = 1

(* C28: the night window is built from the off time on the date of the    *)
(* invocation.  A decision inside the window is inside the window of the   *)
(* current date; an invocation after midnight that lies in the part of the *)
(* previous date's window reaching over midnight finds the window of the   *)
(* new date not yet started; an invocation before midnight that lies in    *)
(* the part of the next date's window reaching back finds the window of    *)
(* its own date over; and when the 80% point of the window is not before   *)
(* the next midnight, no fire on that date is forced by the floor.         *)
ForcedPointAfterMidnight ==
    5 * NightStart + 4 * (NightEnd - NightStart) >= 5 * (Today + 1) * DayMinutes

C28_WindowOnCurrentDate ==
    Ran =>
      /\ inv.night \in {"fire", "wait"} => NightStart <= now /\ now <= NightEnd
      /\ now <= NightEnd - DayMinutes => inv.night = "early"
      /\ now >= NightStart + DayMinutes => inv.night = "missed"
      /\ (ForcedPointAfterMidnight /\ inv.night = "fire") =>
            inv.rOff * (NightEnd - NightStart) < (now - NightStart) * RandDen

(* The timer has run the command all evening, the window 23:35..00:15 has  *)
(* been entered, and after midnight the invocation finds the window not    *)
(* started while yesterday's action never fired.                           *)
C28_Witness ==
    /\ Ran
    /\ Today = Date(StartHour * 60) + 1
    /\ now <= NightEnd - DayMinutes
    /\ inv.night = "early"
    /\ settings.last_night_off = NoDate
    /\ settings.last_sunset_on = Date(StartHour * 60)

(* C29: the discovery command is idempotent.  When the second run on the  *)
(* same batch, with the same reverse lookup, resolves no two devices to    *)
(* the same record, it creates no record, saves no update and classifies   *)
(* every matched device as unchanged: the inventory after the second run   *)
(* is the inventory after the first.                                       *)
SecondRunDone == inv.kind = "discover" /\ now > StartHour * 60

ResolvedRecord(i) == device_exists(inv.before, inv.devices[i])

DistinctRecords ==
    \A i, j \in 1..Len(inv.devices) :
       (i < j /\ ResolvedRecord(i).exists /\ ResolvedRecord(j).exists)
          => ResolvedRecord(i).pos # ResolvedRecord(j).pos

C29_Original ==
    (SecondRunDone /\ DistinctRecords) =>
       /\ switches = inv.before
       /\ inv.added = 0
       /\ \A i \in 1..Len(inv.devices) :
             ResolvedRecord(i).exists =>
                /\ i <= Len(inv.outcomes)
                /\ inv.outcomes[i] = "unchanged"

C29_Amended ==
    (SecondRunDone /\ DistinctRecords /\ Len(inv.outcomes) = Len(inv.devices)) =>
       /\ switches = inv.before
       /\ inv.added = 0
       /\ \A i \in 1..Len(inv.devices) :
             ResolvedRecord(i).exists => inv.outcomes[i] = "unchanged"

(* C30: the window decision divides by zero only for a half-width of 0,   *)
(* at the instant of the target.  There the check raises instead of        *)
(* firing: it issues no request of its action and leaves its marker.  A    *)
(* sunset check that raises ends the invocation, so nothing is requested   *)
(* and no marker moves; a night check that raises comes after the sunset   *)
(* check, whose fire in the same invocation stays.                         *)
SunsetInstant ==
    /\ Ran
    /\ settings.sunset_window_minutes = 0
    /\ now = sunset_time(Today)
    /\ inv.preOn # Today

NightInstant ==
    /\ Ran
    /\ settings.off_window_minutes = 0
    /\ now = OffTarget
    /\ inv.preOff # Today
    /\ inv.sunset # "error"

DividesByZeroOnlyAtInstant ==
    Ran => /\ inv.sunset = "error" => SunsetInstant
           /\ inv.night = "error" => NightInstant
           /\ inv.raised <=> (inv.sunset = "error" \/ inv.night = "error")

C30_ZeroWindowRaises ==
    /\ DividesByZeroOnlyAtInstant
    /\ SunsetInstant =>
          /\ inv.sunset = "error"
          /\ inv.night = "notrun"
          /\ calls = <<>>
          /\ settings.last_sunset_on = inv.preOn
          /\ settings.last_night_off = inv.preOff
    /\ NightInstant =>
          /\ inv.night = "error"
          /\ TurnOffCalls = <<>>
          /\ settings.last_night_off = inv.preOff

(* The night check raises in an invocation whose sunset check fired.       *)
C30_Witness ==
    /\ NightInstant
    /\ inv.night = "error"
    /\ inv.sunset = "fire"
    /\ ~inv.dry_run
    /\ Len(TurnOnCalls) = NumSwitches
    /\ settings.last_sunset_on = Today

(* C30 as stated: the invocation that raises issues no request at all and  *)
(* sets no marker.                                                         *)
C30_Original ==
    /\ DividesByZeroOnlyAtInstant
    /\ (SunsetInstant \/ NightInstant) =>
          /\ inv.raised
          /\ calls = <<>>
          /\ settings.last_sunset_on = inv.preOn
          /\ settings.last_night_off = inv.preOff

====
